---- MODULE Spec2Model ----
(***************************************************************************)
(* Model of the qpay-go client: the token lifecycle (ensureToken,          *)
(* GetToken, RefreshToken, storeToken) and the request pipeline            *)
(* (doRequest, doBasicAuthRequest, doRefreshTokenHTTP) of client.go,       *)
(* run by several concurrent callers on one shared Client.                 *)
(***************************************************************************)
EXTENDS Integers, Sequences, FiniteSets, TLC

\* ------------------------------------------------------------------ bounds
\* Last epoch second the clock reaches (time.Now().Unix() ranges over 0..MaxNow).
MaxNow == 3

\* Failed calls the history variable failures counts up to.
MaxFailures == 2

\* --------------------------------------------------------------- constants
\* const tokenBufferSeconds = 30
tokenBufferSeconds == 30

\* The goroutines calling into the one shared Client.
Procs == {1, 2}

\* sync.Mutex: 0 is unlocked, otherwise the goroutine that locked it.
Free == 0

\* ------------------------------------------------------------------ values
\* type TokenResponse (the four fields storeToken copies).
Tok(a, r, e, re) ==
    [access_token |-> a, refresh_token |-> r, expires_in |-> e, refresh_expires_in |-> re]

\* The zero TokenResponse of `var token TokenResponse`.
ZeroToken == Tok("", "", 0, 0)

\* Token pairs the server hands out.  expires_in / refresh_expires_in are
\* absolute epoch seconds placed around the 30 second margin of the clock.
\* T1 stays fresh up to second 3; T2 is fresh at second 0 only, and its
\* refresh token is usable at seconds 0..2.
T1 == Tok("a1", "r1", tokenBufferSeconds + 4, tokenBufferSeconds + 6)
T2 == Tok("a2", "r2", tokenBufferSeconds + 1, tokenBufferSeconds + 3)
TokenResponses == {T1, T2}

\* Response bodies.  kind: "empty" (no bytes), "text" (not JSON), "json" (a
\* JSON object).  For a JSON object, error/message/tok are the values of its
\* keys; a key that is absent is "" (resp. the zero token), as json.Unmarshal
\* leaves the destination field untouched.
Body(k, raw, e, m, t) == [kind |-> k, raw |-> raw, error |-> e, message |-> m, tok |-> t]

EmptyBody == Body("empty", "", "", "", ZeroToken)
TextBody == Body("text", "oops", "", "", ZeroToken)
ErrorBody == Body("json", "{error,message}", "invalid_grant", "Token is expired", ZeroToken)
TokenBody(t) == Body("json", t.access_token, "", "", t)

\* {"error":"INVOICE_NOTFOUND","message":"Invoice not found"}
InvoiceNotFoundBody ==
    Body("json", "{INVOICE_NOTFOUND}", "INVOICE_NOTFOUND", "Invoice not found", ZeroToken)

\* JSON objects with only one of the two keys, and with neither.
CodeOnlyBody == Body("json", "{error}", "AUTHENTICATION_FAILED", "", ZeroToken)
MessageOnlyBody == Body("json", "{message}", "", "Invalid credentials", ZeroToken)
EmptyObjectBody == Body("json", "{}", "", "", ZeroToken)

Bodies ==
    {EmptyBody, TextBody, ErrorBody, InvoiceNotFoundBody, CodeOnlyBody, MessageOnlyBody,
     EmptyObjectBody} \cup {TokenBody(t) : t \in TokenResponses}

\* Status codes on both sides of each end of [200,300), and the error
\* statuses of the tests.
Statuses == {199, 200, 299, 300, 400, 401, 500}

\* What c.http.Do and io.ReadAll give back: failed is "do" when c.http.Do
\* fails (connection error, timeout, cancelled context), "read" when
\* io.ReadAll fails, and "no" when a status and a body arrived.
Outcome(f, s, b) == [failed |-> f, status |-> s, body |-> b]
Outcomes ==
    {Outcome("do", 0, EmptyBody), Outcome("read", 0, EmptyBody)}
        \cup {Outcome("no", s, b) : s \in Statuses, b \in Bodies}

\* No exchange finished yet.
NoResp == Outcome("none", 0, EmptyBody)

\* The answers the server gives the concurrent callers: a failed exchange, a
\* 401 with an error object, and 200 with no body, with a non-JSON body and
\* with each token pair.
ServerOutcomes ==
    {Outcome("do", 0, EmptyBody), Outcome("no", 401, ErrorBody),
     Outcome("no", 200, EmptyBody), Outcome("no", 200, TextBody)}
        \cup {Outcome("no", 200, TokenBody(t)) : t \in TokenResponses}

\* --------------------------------------------------------------- errors
\* An error value: type is its dynamic type, wraps the chain of wrapped
\* types below it (fmt.Errorf with %w), text the message prefixes, and the
\* Error fields those of the *Error at the bottom of the chain, if any.
Err(t, w, x, s, c, m, rb) ==
    [type |-> t, wraps |-> w, text |-> x, StatusCode |-> s, Code |-> c, Message |-> m, RawBody |-> rb]

NilErr == Err("nil", <<>>, <<>>, 0, "", "", "")

\* &Error{StatusCode: ..., RawBody: ...} after json.Unmarshal(respBody, qErr)
QPayErr(s, c, m, rb) == Err("*Error", <<>>, <<>>, s, c, m, rb)

\* the error of c.http.Do / io.ReadAll
TransportErr == Err("transport", <<>>, <<>>, 0, "", "", "")

\* the error of json.Unmarshal
JSONErr == Err("json", <<>>, <<>>, 0, "", "", "")

\* fmt.Errorf(msg + ": %w", e)
Wrap(msg, e) == [e EXCEPT !.type = "*fmt.wrapError", !.wraps = <<e.type>> \o e.wraps,
                          !.text = <<msg>> \o e.text]

\* Mutant of IsQPayError: the chain of wrapped errors is searched, as
\* errors.As does.
IsQPayErrorUnwraps(err) ==
    IF err = NilErr THEN <<NilErr, FALSE>>
    ELSE IF err.type = "*Error" THEN <<err, TRUE>>
    ELSE IF \E i \in 1..Len(err.wraps) : err.wraps[i] = "*Error"
         THEN <<QPayErr(err.StatusCode, err.Code, err.Message, err.RawBody), TRUE>>
    ELSE <<NilErr, FALSE>>

\* func IsQPayError(err error) (*Error, bool): a type assertion on err itself.
IsQPayError(err) ==
    IF err = NilErr THEN <<NilErr, FALSE>>
    ELSE IF err.type = "*Error" THEN <<err, TRUE>>
    ELSE <<NilErr, FALSE>>

\* http.StatusText for the statuses in use ("" for a code it does not know).
StatusText(s) ==
    CASE s = 200 -> "OK"
      [] s = 300 -> "Multiple Choices"
      [] s = 400 -> "Bad Request"
      [] s = 401 -> "Unauthorized"
      [] s = 500 -> "Internal Server Error"
      [] OTHER -> ""

\* Mutant of IsErrorStatus: 300 is taken for a success.
IsErrorStatusInclusive(s) == s < 200 \/ s > 300

\* resp.StatusCode < 200 || resp.StatusCode >= 300
IsErrorStatus(s) == s < 200 \/ s >= 300

\* json.Unmarshal(respBody, &token): fails unless the body is a JSON object.
UnmarshalTokenFails(b) == b.kind # "json"

\* A call's result: the *TokenResponse (ZeroToken standing for nil) and the error.
Result(t, e) == [token |-> t, err |-> e]

\* Mutant of DecodeError: the two JSON keys are read into each other's field.
DecodeErrorSwapsFields(o) ==
    QPayErr(o.status,
            IF o.body.kind = "json" THEN o.body.message ELSE "",
            IF o.body.kind = "json" THEN o.body.error ELSE "",
            o.body.raw)

\* &Error{StatusCode, RawBody} followed by json.Unmarshal(respBody, qErr),
\* whose failure is ignored: Code and Message are set from a JSON object only.
DecodeError(o) ==
    QPayErr(o.status,
            IF o.body.kind = "json" THEN o.body.error ELSE "",
            IF o.body.kind = "json" THEN o.body.message ELSE "",
            o.body.raw)

\* if qErr.Code == "" {...}; if qErr.Message == "" {...}
WithDefaults(o, e) ==
    [e EXCEPT !.Code = IF e.Code = "" THEN StatusText(o.status) ELSE e.Code,
              !.Message = IF e.Message = "" THEN o.body.raw ELSE e.Message]

\* func (c *Client) doRefreshTokenHTTP: the result for an outcome of the exchange.
doRefreshTokenHTTP(o) ==
    IF o.failed # "no" THEN Result(ZeroToken, TransportErr)
    ELSE IF IsErrorStatus(o.status) THEN Result(ZeroToken, DecodeError(o))
    ELSE IF UnmarshalTokenFails(o.body) THEN Result(ZeroToken, JSONErr)
    ELSE Result(o.body.tok, NilErr)

\* func (c *Client) doBasicAuthRequest with result = &token: token is what the
\* destination holds afterwards.
doBasicAuthRequest(o) ==
    IF o.failed = "do" THEN Result(ZeroToken, Wrap("request failed", TransportErr))
    ELSE IF o.failed = "read"
         THEN Result(ZeroToken, Wrap("failed to read response body", TransportErr))
    ELSE IF IsErrorStatus(o.status) THEN Result(ZeroToken, WithDefaults(o, DecodeError(o)))
    ELSE IF o.body.kind = "empty" THEN Result(ZeroToken, NilErr)
    ELSE IF UnmarshalTokenFails(o.body)
         THEN Result(ZeroToken, Wrap("failed to unmarshal response", JSONErr))
    ELSE Result(o.body.tok, NilErr)

\* func (c *Client) getTokenRequest
getTokenRequest(o) == doBasicAuthRequest(o)

\* Mutant of doRequestResult: the body is decoded whenever a destination was
\* passed, an empty body included.
doRequestResultDecodesEmpty(o, hasResult) ==
    IF o.failed = "do" THEN Wrap("request failed", TransportErr)
    ELSE IF o.failed = "read" THEN Wrap("failed to read response body", TransportErr)
    ELSE IF IsErrorStatus(o.status) THEN WithDefaults(o, DecodeError(o))
    ELSE IF hasResult /\ o.body.kind # "json"
         THEN Wrap("failed to unmarshal response", JSONErr)
    ELSE NilErr

\* The error of doRequest once its request has been sent; hasResult says
\* whether a destination was passed (result != nil).
doRequestResult(o, hasResult) ==
    IF o.failed = "do" THEN Wrap("request failed", TransportErr)
    ELSE IF o.failed = "read" THEN Wrap("failed to read response body", TransportErr)
    ELSE IF IsErrorStatus(o.status) THEN WithDefaults(o, DecodeError(o))
    ELSE IF hasResult /\ o.body.kind # "empty" /\ o.body.kind # "json"
         THEN Wrap("failed to unmarshal response", JSONErr)
    ELSE NilErr

\* The destination of doRequest after the call: "nil" when none was passed
\* (result == nil), "decoded" when json.Unmarshal(respBody, result) filled
\* it, "untouched" otherwise.
doRequestDest(o, hasResult) ==
    IF ~hasResult THEN "nil"
    ELSE IF o.failed = "no" /\ ~IsErrorStatus(o.status) /\ o.body.kind = "json" THEN "decoded"
    ELSE "untouched"

\* Mutant of Fresh: the margin is applied to both sides of the comparison.
FreshDoubleMargin(a, e, n) == a # "" /\ n + tokenBufferSeconds < e - tokenBufferSeconds

\* Mutant of Fresh: the comparison is not strict.
FreshNonStrict(a, e, n) == a # "" /\ n <= e - tokenBufferSeconds

\* c.accessToken != "" && now < c.expiresAt-tokenBufferSeconds
Fresh(a, e, n) == a # "" /\ n < e - tokenBufferSeconds

\* Mutant of CanRefresh: the comparison is turned round.
CanRefreshInverted(r, re, n) == r # "" /\ n > re - tokenBufferSeconds

\* Mutant of CanRefresh: the refresh token is used up to its expiry instant,
\* without the 30 second margin.
CanRefreshNoMargin(r, re, n) == r # "" /\ n < re

\* canRefresh := c.refreshToken != "" && now < c.refreshExpiresAt-tokenBufferSeconds
CanRefresh(r, re, n) == r # "" /\ n < re - tokenBufferSeconds

\* ------------------------------------------------------------------- state
VARIABLES
    mu,                \* Client.mu: Free or the goroutine holding it
    accessToken,       \* Client.accessToken
    refreshToken,      \* Client.refreshToken
    expiresAt,         \* Client.expiresAt
    refreshExpiresAt,  \* Client.refreshExpiresAt
    now,               \* time.Now().Unix()
    pc,                \* where each goroutine stands
    refreshTok,        \* local refreshTok of ensureToken / RefreshToken
    token,             \* local token (the decoded *TokenResponse)
    resp,              \* the outcome of the HTTP exchange the goroutine just finished
    err,               \* the error the call returns
    bearer,            \* the Authorization bearer value doRequest put on its request
    nRefresh,          \* requests to /v2/auth/refresh issued by the current call
    nAuth,             \* requests to /v2/auth/token issued by the current call
    wrote,             \* whether the current call has assigned a token field
    nDomain,           \* domain requests (c.http.Do in doRequest) issued by the current call
    failures,          \* history: calls on this Client that returned an error so far
    other,             \* the token fields of a second Client made by NewClient
    env,               \* the process environment (os.Getenv)
    loaded,            \* the last call of LoadConfigFromEnv: the environment it saw, its results
    probe,             \* the error last passed to IsQPayError
    verdict,           \* what IsQPayError returned for it
    dest,              \* the destination (result) of the goroutine's doRequest call
    req,               \* the request line and credentials of the goroutine's last request
    hdr                \* the header of the request the goroutine built last

vars == <<mu, accessToken, refreshToken, expiresAt, refreshExpiresAt, now, pc,
          refreshTok, token, resp, err, bearer, nRefresh, nAuth, wrote, nDomain,
          failures, other, env, loaded, probe, verdict, dest, req, hdr>>

fields == <<accessToken, refreshToken, expiresAt, refreshExpiresAt>>
locals == <<refreshTok, token, resp, err, bearer, nRefresh, nAuth, wrote, nDomain>>

\* What no operation on this Client reads or writes.
aux == <<failures, other, env, loaded, probe, verdict, dest, req, hdr>>

\* ------------------------------------------------------------------ config
\* The five environment variables LoadConfigFromEnv requires.
EnvVars == {"QPAY_BASE_URL", "QPAY_USERNAME", "QPAY_PASSWORD", "QPAY_INVOICE_CODE",
            "QPAY_CALLBACK_URL"}

\* The non-empty value a test gives each variable.
ValueOf(v) ==
    CASE v = "QPAY_BASE_URL" -> "https://merchant.qpay.mn"
      [] v = "QPAY_USERNAME" -> "testuser"
      [] v = "QPAY_PASSWORD" -> "testpass"
      [] v = "QPAY_INVOICE_CODE" -> "INV_CODE"
      [] OTHER -> "https://example.com/callback"

\* type Config
Config(b, u, pw, i, cb) ==
    [BaseURL |-> b, Username |-> u, Password |-> pw, InvoiceCode |-> i, CallbackURL |-> cb]

\* What LoadConfigFromEnv returned for the environment e: isNil says that the
\* *Config is nil, missing is the variable the error text names ("" with a
\* nil error).
LoadResult(e, isNil, cfg, missing) ==
    [called |-> TRUE, env |-> e, isNil |-> isNil, config |-> cfg, missing |-> missing]

\* LoadConfigFromEnv has not been called.
NotLoaded ==
    [called |-> FALSE, env |-> [v \in EnvVars |-> ""], isNil |-> TRUE,
     config |-> Config("", "", "", "", ""), missing |-> ""]

\* Mutant of LoadConfigFromEnv: QPAY_CALLBACK_URL is not among the required
\* variables.
LoadConfigFromEnvCallbackOptional(e) ==
    LET cfg == Config(e["QPAY_BASE_URL"], e["QPAY_USERNAME"], e["QPAY_PASSWORD"],
                      e["QPAY_INVOICE_CODE"], e["QPAY_CALLBACK_URL"])
        unset == {v \in EnvVars \ {"QPAY_CALLBACK_URL"} : e[v] = ""}
    IN  IF unset = {}
        THEN {LoadResult(e, FALSE, cfg, "")}
        ELSE {LoadResult(e, TRUE, Config("", "", "", "", ""), v) : v \in unset}

\* func LoadConfigFromEnv() (*Config, error): the results it can give in the
\* environment e.  `for name, val := range required` visits the map in an
\* order that differs from run to run, so with several variables empty the
\* error can name any one of them.
LoadConfigFromEnv(e) ==
    LET cfg == Config(e["QPAY_BASE_URL"], e["QPAY_USERNAME"], e["QPAY_PASSWORD"],
                      e["QPAY_INVOICE_CODE"], e["QPAY_CALLBACK_URL"])
        unset == {v \in EnvVars : e[v] = ""}
    IN  IF unset = {}
        THEN {LoadResult(e, FALSE, cfg, "")}
        ELSE {LoadResult(e, TRUE, Config("", "", "", "", ""), v) : v \in unset}

\* ---------------------------------------------------------------- requests
\* A request as it leaves: the operation that built it, method, path (the
\* literal prefix followed by the id the caller passed, if any) and the kind
\* of credentials in its Authorization header.
Request(op, m, path, auth) == [op |-> op, method |-> m, path |-> path, auth |-> auth]

\* No request built yet.
NoRequest == Request("none", "", <<>>, "")

\* The ids callers pass.
IDs == {"inv-1", "pay-2"}

\* The domain operations that take no id, and those that take one.
PlainOps == {"CreateInvoice", "CreateSimpleInvoice", "CreateEbarimtInvoice", "CheckPayment",
             "ListPayments", "CreateEbarimt"}
IdOps == {"CancelInvoice", "GetPayment", "CancelPayment", "RefundPayment", "CancelEbarimt"}

\* Mutant of DomainRequest: CancelPayment is sent as a POST.
DomainRequestCancelByPost(op, id) ==
    CASE op = "CreateInvoice" -> Request(op, "POST", <<"/v2/invoice">>, "Bearer")
      [] op = "CreateSimpleInvoice" -> Request(op, "POST", <<"/v2/invoice">>, "Bearer")
      [] op = "CreateEbarimtInvoice" -> Request(op, "POST", <<"/v2/invoice">>, "Bearer")
      [] op = "CancelInvoice" -> Request(op, "DELETE", <<"/v2/invoice/", id>>, "Bearer")
      [] op = "GetPayment" -> Request(op, "GET", <<"/v2/payment/", id>>, "Bearer")
      [] op = "CheckPayment" -> Request(op, "POST", <<"/v2/payment/check">>, "Bearer")
      [] op = "ListPayments" -> Request(op, "POST", <<"/v2/payment/list">>, "Bearer")
      [] op = "CancelPayment" -> Request(op, "POST", <<"/v2/payment/cancel/", id>>, "Bearer")
      [] op = "RefundPayment" -> Request(op, "DELETE", <<"/v2/payment/refund/", id>>, "Bearer")
      [] op = "CreateEbarimt" -> Request(op, "POST", <<"/v2/ebarimt_v3/create">>, "Bearer")
      [] OTHER -> Request(op, "DELETE", <<"/v2/ebarimt_v3/", id>>, "Bearer")

\* The c.doRequest(ctx, method, path, ...) call of each domain operation;
\* doRequest puts "Bearer "+c.accessToken on it.
DomainRequest(op, id) ==
    CASE op = "CreateInvoice" -> Request(op, "POST", <<"/v2/invoice">>, "Bearer")
      [] op = "CreateSimpleInvoice" -> Request(op, "POST", <<"/v2/invoice">>, "Bearer")
      [] op = "CreateEbarimtInvoice" -> Request(op, "POST", <<"/v2/invoice">>, "Bearer")
      [] op = "CancelInvoice" -> Request(op, "DELETE", <<"/v2/invoice/", id>>, "Bearer")
      [] op = "GetPayment" -> Request(op, "GET", <<"/v2/payment/", id>>, "Bearer")
      [] op = "CheckPayment" -> Request(op, "POST", <<"/v2/payment/check">>, "Bearer")
      [] op = "ListPayments" -> Request(op, "POST", <<"/v2/payment/list">>, "Bearer")
      [] op = "CancelPayment" -> Request(op, "DELETE", <<"/v2/payment/cancel/", id>>, "Bearer")
      [] op = "RefundPayment" -> Request(op, "DELETE", <<"/v2/payment/refund/", id>>, "Bearer")
      [] op = "CreateEbarimt" -> Request(op, "POST", <<"/v2/ebarimt_v3/create">>, "Bearer")
      [] OTHER -> Request(op, "DELETE", <<"/v2/ebarimt_v3/", id>>, "Bearer")

\* getTokenRequest: doBasicAuthRequest(ctx, "POST", "/v2/auth/token", &token)
\* with req.SetBasicAuth(c.config.Username, c.config.Password).
AuthRequest == Request("getTokenRequest", "POST", <<"/v2/auth/token">>, "Basic")

\* doRefreshTokenHTTP: POST c.config.BaseURL + "/v2/auth/refresh" with
\* Authorization "Bearer " + refreshTok.
RefreshRequest == Request("doRefreshTokenHTTP", "POST", <<"/v2/auth/refresh">>, "Bearer")

\* ----------------------------------------------------------------- headers
\* The Config a Client is made with: that of the client tests, and the one
\* LoadConfigFromEnv gives for the environment of the config tests.
Configs ==
    {Config("https://api.qpay.mn", "user", "pass", "INV001", "https://example.com/callback"),
     Config(ValueOf("QPAY_BASE_URL"), ValueOf("QPAY_USERNAME"), ValueOf("QPAY_PASSWORD"),
            ValueOf("QPAY_INVOICE_CODE"), ValueOf("QPAY_CALLBACK_URL"))}

\* The two header fields the client sets ("" for one that is not set, as
\* Header.Get gives).  Authorization is the scheme followed by what the
\* credentials are made of.
Header(ct, auth) == [ContentType |-> ct, Authorization |-> auth]

\* req.SetBasicAuth(username, password): "Basic " followed by the base64
\* text of username, a colon and password.
BasicAuth(username, password) == <<"Basic", "base64", username, ":", password>>

\* Mutant of DoRequestHeader: Content-Type is set only on a request that
\* has a body.
DoRequestHeaderBodyOnly(hasBody, tok) ==
    Header(IF hasBody THEN "application/json" ELSE "", <<"Bearer", tok>>)

\* doRequest: req.Header.Set("Content-Type", "application/json") and
\* req.Header.Set("Authorization", "Bearer "+c.accessToken), with or without
\* a body.
DoRequestHeader(hasBody, tok) == Header("application/json", <<"Bearer", tok>>)

\* doBasicAuthRequest: req.SetBasicAuth(c.config.Username, c.config.Password)
DoBasicAuthHeader(cfg) == Header("", BasicAuth(cfg.Username, cfg.Password))

\* doRefreshTokenHTTP: req.Header.Set("Authorization", "Bearer "+refreshTok)
DoRefreshHeader(tok) == Header("", <<"Bearer", tok>>)

\* A request as built: by names the function that built it, config is the
\* Config of its Client, hasBody says whether a body was passed.
Built(by, cfg, hasBody, h) == [by |-> by, config |-> cfg, hasBody |-> hasBody, header |-> h]

\* No request built yet.
NotBuilt == Built("none", Config("", "", "", "", ""), FALSE, Header("", <<>>))

\* A string read while another goroutine is assigning it.
Torn == "<torn>"

\* Mutant of Init: the constructor hands the client a refresh token.
InitPreloaded ==
    /\ mu = Free
    /\ accessToken = ""
    /\ refreshToken = T1.refresh_token
    /\ expiresAt = 0
    /\ refreshExpiresAt = T1.refresh_expires_in
    /\ now = 0
    /\ pc = [p \in Procs |-> "idle"]
    /\ refreshTok = [p \in Procs |-> ""]
    /\ token = [p \in Procs |-> ZeroToken]
    /\ resp = [p \in Procs |-> NoResp]
    /\ err = [p \in Procs |-> NilErr]
    /\ bearer = [p \in Procs |-> ""]
    /\ nRefresh = [p \in Procs |-> 0]
    /\ nAuth = [p \in Procs |-> 0]
    /\ wrote = [p \in Procs |-> FALSE]
    /\ nDomain = [p \in Procs |-> 0]
    /\ failures = 0
    /\ other = ZeroToken
    /\ env = [v \in EnvVars |-> ""]
    /\ loaded = NotLoaded
    /\ probe = NilErr
    /\ verdict = IsQPayError(NilErr)
    /\ dest = [p \in Procs |-> "none"]
    /\ req = [p \in Procs |-> NoRequest]
    /\ hdr = [p \in Procs |-> NotBuilt]

\* NewClient / NewClientWithHTTPClient: zero token fields, unlocked mutex.
Init ==
    /\ mu = Free
    /\ accessToken = ""
    /\ refreshToken = ""
    /\ expiresAt = 0
    /\ refreshExpiresAt = 0
    /\ now = 0
    /\ pc = [p \in Procs |-> "idle"]
    /\ refreshTok = [p \in Procs |-> ""]
    /\ token = [p \in Procs |-> ZeroToken]
    /\ resp = [p \in Procs |-> NoResp]
    /\ err = [p \in Procs |-> NilErr]
    /\ bearer = [p \in Procs |-> ""]
    /\ nRefresh = [p \in Procs |-> 0]
    /\ nAuth = [p \in Procs |-> 0]
    /\ wrote = [p \in Procs |-> FALSE]
    /\ nDomain = [p \in Procs |-> 0]
    /\ failures = 0
    /\ other = ZeroToken
    /\ env = [v \in EnvVars |-> ""]
    /\ loaded = NotLoaded
    /\ probe = NilErr
    /\ verdict = IsQPayError(NilErr)
    /\ dest = [p \in Procs |-> "none"]
    /\ req = [p \in Procs |-> NoRequest]
    /\ hdr = [p \in Procs |-> NotBuilt]

\* Mutant of Tick: a timer drops the access token at the moment it goes
\* stale, without any call to the client.
TickEvictsStale ==
    /\ now < MaxNow
    /\ now' = now + 1
    /\ accessToken' = IF Fresh(accessToken, expiresAt, now + 1) THEN accessToken ELSE ""
    /\ UNCHANGED <<mu, refreshToken, expiresAt, refreshExpiresAt, pc, locals, aux>>

\* The wall clock advances.
Tick ==
    /\ now < MaxNow
    /\ now' = now + 1
    /\ UNCHANGED <<mu, fields, pc, locals, aux>>

\* Program points.  ensureToken is reached through doRequest (every domain
\* operation starts with it); its return with nil is the arrival at
\* "dr_build", its return with an error the arrival at "dr_fail".
EnsurePCs == {"et_lock", "et_check", "et_refresh", "et_refresh_wait", "et_auth", "et_auth_wait",
              "et_st_lock", "et_st_access", "et_st_rest"}
GetTokenPCs == {"gt_auth", "gt_auth_wait", "gt_st_lock", "gt_st_access", "gt_st_rest", "gt_done"}
RefreshTokenPCs == {"rt_lock", "rt_read", "rt_refresh", "rt_refresh_wait",
                    "rt_st_lock", "rt_st_access", "rt_st_rest", "rt_done"}
DoRequestPCs == EnsurePCs \cup {"dr_fail", "dr_build", "dr_wait", "dr_done"}

\* A goroutine enters a domain operation (doRequest, which begins with
\* ensureToken), GetToken or RefreshToken.
Call(p) ==
    /\ pc[p] = "idle"
    /\ \E start \in {"et_lock", "gt_auth", "rt_lock"} : pc' = [pc EXCEPT ![p] = start]
    /\ UNCHANGED <<mu, fields, now, locals, aux>>

\* ------------------------------------------------------------- ensureToken
\* c.mu.Lock()
EnsureTokenLock(p) ==
    /\ pc[p] = "et_lock"
    /\ mu = Free
    /\ mu' = p
    /\ pc' = [pc EXCEPT ![p] = "et_check"]
    /\ UNCHANGED <<fields, now, locals, aux>>

\* Mutant of EnsureTokenCheck: the mutex is released on the cache hit only (as
\* with a missing c.mu.Unlock() before the network calls).
EnsureTokenCheckKeepsLock(p) ==
    /\ pc[p] = "et_check"
    /\ IF Fresh(accessToken, expiresAt, now)
       THEN /\ mu' = Free
            /\ pc' = [pc EXCEPT ![p] = "dr_build"]
            /\ UNCHANGED refreshTok
       ELSE /\ mu' = mu
            /\ refreshTok' = [refreshTok EXCEPT ![p] = refreshToken]
            /\ pc' = [pc EXCEPT ![p] =
                        IF CanRefresh(refreshToken, refreshExpiresAt, now)
                        THEN "et_refresh" ELSE "et_auth"]
    /\ UNCHANGED <<resp, fields, now, token, err, bearer, nRefresh, nAuth, wrote, nDomain, aux>>

\* Mutant of EnsureTokenCheck: once a call has failed the client stays in
\* error and ensureToken returns an error without trying again.
EnsureTokenCheckGivesUp(p) ==
    /\ pc[p] = "et_check"
    /\ mu' = Free
    /\ IF failures > 0
       THEN /\ err' = [err EXCEPT ![p] = Wrap("failed to get token", TransportErr)]
            /\ pc' = [pc EXCEPT ![p] = "dr_fail"]
            /\ UNCHANGED refreshTok
       ELSE /\ UNCHANGED err
            /\ IF Fresh(accessToken, expiresAt, now)
               THEN /\ pc' = [pc EXCEPT ![p] = "dr_build"]
                    /\ UNCHANGED refreshTok
               ELSE /\ refreshTok' = [refreshTok EXCEPT ![p] = refreshToken]
                    /\ pc' = [pc EXCEPT ![p] =
                                IF CanRefresh(refreshToken, refreshExpiresAt, now)
                                THEN "et_refresh" ELSE "et_auth"]
    /\ UNCHANGED <<resp, fields, now, token, bearer, nRefresh, nAuth, wrote, nDomain, aux>>

\* now := time.Now().Unix(); the cache-hit test; canRefresh, refreshTok;
\* c.mu.Unlock() on either branch; return nil on a hit.
EnsureTokenCheck(p) ==
    /\ pc[p] = "et_check"
    /\ mu' = Free
    /\ IF Fresh(accessToken, expiresAt, now)
       THEN /\ pc' = [pc EXCEPT ![p] = "dr_build"]
            /\ UNCHANGED refreshTok
       ELSE /\ refreshTok' = [refreshTok EXCEPT ![p] = refreshToken]
            /\ pc' = [pc EXCEPT ![p] =
                        IF CanRefresh(refreshToken, refreshExpiresAt, now)
                        THEN "et_refresh" ELSE "et_auth"]
    /\ UNCHANGED <<resp, fields, now, token, err, bearer, nRefresh, nAuth, wrote, nDomain, aux>>

\* Mutant of EnsureTokenRefreshSend: the refresh token is read from the
\* client again when the request is built, outside the critical section.
EnsureTokenRefreshSendRereads(p) ==
    /\ pc[p] = "et_refresh"
    /\ refreshTok' = [refreshTok EXCEPT ![p] = refreshToken]
    /\ nRefresh' = [nRefresh EXCEPT ![p] = @ + 1]
    /\ pc' = [pc EXCEPT ![p] = "et_refresh_wait"]
    /\ UNCHANGED <<resp, mu, fields, now, token, err, bearer, nAuth, wrote, nDomain, aux>>

\* c.doRefreshTokenHTTP(ctx, refreshTok): the request leaves (c.http.Do).
EnsureTokenRefreshSend(p) ==
    /\ pc[p] = "et_refresh"
    /\ nRefresh' = [nRefresh EXCEPT ![p] = @ + 1]
    /\ pc' = [pc EXCEPT ![p] = "et_refresh_wait"]
    /\ UNCHANGED <<resp, mu, fields, now, refreshTok, token, err, bearer, nAuth, wrote, nDomain, aux>>

\* Mutant of EnsureTokenRefreshRecv: a failed refresh is returned to the caller.
EnsureTokenRefreshRecvPropagates(p) ==
    /\ pc[p] = "et_refresh_wait"
    /\ \E o \in ServerOutcomes :
        /\ resp' = [resp EXCEPT ![p] = o]
        /\ LET r == doRefreshTokenHTTP(o) IN
           IF r.err = NilErr
           THEN /\ token' = [token EXCEPT ![p] = r.token]
                /\ pc' = [pc EXCEPT ![p] = "et_st_lock"]
                /\ UNCHANGED err
           ELSE /\ err' = [err EXCEPT ![p] = r.err]
                /\ pc' = [pc EXCEPT ![p] = "dr_fail"]
                /\ UNCHANGED token
    /\ refreshTok' = [refreshTok EXCEPT ![p] = ""]
    /\ UNCHANGED <<mu, fields, now, bearer, nRefresh, nAuth, wrote, nDomain, aux>>

\* Mutant of EnsureTokenRefreshRecv: a failed refresh is tried again.
EnsureTokenRefreshRecvRetries(p) ==
    /\ pc[p] = "et_refresh_wait"
    /\ \E o \in ServerOutcomes :
        /\ resp' = [resp EXCEPT ![p] = o]
        /\ LET r == doRefreshTokenHTTP(o) IN
           IF r.err = NilErr
           THEN /\ token' = [token EXCEPT ![p] = r.token]
                /\ pc' = [pc EXCEPT ![p] = "et_st_lock"]
           ELSE /\ pc' = [pc EXCEPT ![p] = "et_refresh"]
                /\ UNCHANGED token
    /\ UNCHANGED <<mu, fields, now, refreshTok, err, bearer, nRefresh, nAuth, wrote, nDomain, aux>>

\* Mutant of EnsureTokenRefreshRecv: only a refresh answered with a status
\* outside [200,300) falls back to the full authentication; any other error
\* of the refresh is returned to the caller.
EnsureTokenRefreshRecvStatusOnly(p) ==
    /\ pc[p] = "et_refresh_wait"
    /\ \E o \in ServerOutcomes :
        /\ resp' = [resp EXCEPT ![p] = o]
        /\ LET r == doRefreshTokenHTTP(o) IN
           IF r.err = NilErr
           THEN /\ token' = [token EXCEPT ![p] = r.token]
                /\ pc' = [pc EXCEPT ![p] = "et_st_lock"]
                /\ UNCHANGED err
           ELSE IF IsQPayError(r.err)[2]
           THEN /\ pc' = [pc EXCEPT ![p] = "et_auth"]
                /\ UNCHANGED <<token, err>>
           ELSE /\ err' = [err EXCEPT ![p] = r.err]
                /\ pc' = [pc EXCEPT ![p] = "dr_fail"]
                /\ UNCHANGED token
    /\ refreshTok' = [refreshTok EXCEPT ![p] = ""]
    /\ UNCHANGED <<mu, fields, now, bearer, nRefresh, nAuth, wrote, nDomain, aux>>

\* doRefreshTokenHTTP returns; if err == nil the token goes to storeToken,
\* otherwise control falls through to the full authentication.
EnsureTokenRefreshRecv(p) ==
    /\ pc[p] = "et_refresh_wait"
    /\ \E o \in ServerOutcomes :
        /\ resp' = [resp EXCEPT ![p] = o]
        /\ LET r == doRefreshTokenHTTP(o) IN
           IF r.err = NilErr
           THEN /\ token' = [token EXCEPT ![p] = r.token]
                /\ pc' = [pc EXCEPT ![p] = "et_st_lock"]
           ELSE /\ pc' = [pc EXCEPT ![p] = "et_auth"]
                /\ UNCHANGED token
    /\ refreshTok' = [refreshTok EXCEPT ![p] = ""]
    /\ UNCHANGED <<mu, fields, now, err, bearer, nRefresh, nAuth, wrote, nDomain, aux>>

\* c.getTokenRequest(ctx): the request leaves.
EnsureTokenAuthSend(p) ==
    /\ pc[p] = "et_auth"
    /\ nAuth' = [nAuth EXCEPT ![p] = @ + 1]
    /\ refreshTok' = [refreshTok EXCEPT ![p] = ""]
    /\ resp' = [resp EXCEPT ![p] = NoResp]
    /\ pc' = [pc EXCEPT ![p] = "et_auth_wait"]
    /\ UNCHANGED <<mu, fields, now, token, err, bearer, nRefresh, wrote, nDomain, aux>>

\* Mutant of EnsureTokenAuthRecv: a failed authentication drops the cached
\* access token.
EnsureTokenAuthRecvClears(p) ==
    /\ pc[p] = "et_auth_wait"
    /\ \E o \in ServerOutcomes :
        /\ resp' = [resp EXCEPT ![p] = o]
        /\ LET r == getTokenRequest(o) IN
           IF r.err # NilErr
           THEN /\ err' = [err EXCEPT ![p] = Wrap("failed to get token", r.err)]
                /\ pc' = [pc EXCEPT ![p] = "dr_fail"]
                /\ accessToken' = ""
                /\ UNCHANGED token
           ELSE /\ token' = [token EXCEPT ![p] = r.token]
                /\ pc' = [pc EXCEPT ![p] = "et_st_lock"]
                /\ UNCHANGED <<err, accessToken>>
    /\ UNCHANGED <<mu, refreshToken, expiresAt, refreshExpiresAt, now, refreshTok, bearer,
                   nRefresh, nAuth, wrote, nDomain, aux>>

\* Mutant of EnsureTokenAuthRecv: doRequest goes on to its own request whether
\* or not ensureToken returned an error.
EnsureTokenAuthRecvIgnored(p) ==
    /\ pc[p] = "et_auth_wait"
    /\ \E o \in ServerOutcomes :
        /\ resp' = [resp EXCEPT ![p] = o]
        /\ LET r == getTokenRequest(o) IN
           IF r.err # NilErr
           THEN /\ err' = [err EXCEPT ![p] = Wrap("failed to get token", r.err)]
                /\ pc' = [pc EXCEPT ![p] = "dr_build"]
                /\ UNCHANGED token
           ELSE /\ token' = [token EXCEPT ![p] = r.token]
                /\ pc' = [pc EXCEPT ![p] = "et_st_lock"]
                /\ UNCHANGED err
    /\ UNCHANGED <<mu, fields, now, refreshTok, bearer, nRefresh, nAuth, wrote, nDomain, aux>>

\* Mutant of EnsureTokenAuthRecv: a failed authentication is tried again
\* until it succeeds.
EnsureTokenAuthRecvRetries(p) ==
    /\ pc[p] = "et_auth_wait"
    /\ \E o \in ServerOutcomes :
        /\ resp' = [resp EXCEPT ![p] = o]
        /\ LET r == getTokenRequest(o) IN
           IF r.err # NilErr
           THEN /\ pc' = [pc EXCEPT ![p] = "et_auth"]
                /\ UNCHANGED token
           ELSE /\ token' = [token EXCEPT ![p] = r.token]
                /\ pc' = [pc EXCEPT ![p] = "et_st_lock"]
    /\ UNCHANGED <<mu, fields, now, refreshTok, err, bearer, nRefresh, nAuth, wrote, nDomain, aux>>

\* getTokenRequest returns; an error is returned wrapped (and doRequest
\* returns it as it is), a token is stored.
EnsureTokenAuthRecv(p) ==
    /\ pc[p] = "et_auth_wait"
    /\ \E o \in ServerOutcomes :
        /\ resp' = [resp EXCEPT ![p] = o]
        /\ LET r == getTokenRequest(o) IN
           IF r.err # NilErr
           THEN /\ err' = [err EXCEPT ![p] = Wrap("failed to get token", r.err)]
                /\ pc' = [pc EXCEPT ![p] = "dr_fail"]
                /\ UNCHANGED token
           ELSE /\ token' = [token EXCEPT ![p] = r.token]
                /\ pc' = [pc EXCEPT ![p] = "et_st_lock"]
                /\ UNCHANGED err
    /\ UNCHANGED <<mu, fields, now, refreshTok, bearer, nRefresh, nAuth, wrote, nDomain, aux>>

\* -------------------------------------------------------------- storeToken
\* The three callers of storeToken (ensureToken, GetToken, RefreshToken) each
\* run  c.mu.Lock(); c.storeToken(token); c.mu.Unlock(); return.
Caller(p) ==
    CASE pc[p] \in EnsurePCs -> "et"
      [] pc[p] \in GetTokenPCs -> "gt"
      [] pc[p] \in RefreshTokenPCs -> "rt"
      [] OTHER -> "none"

StorePC(c, step) ==
    CASE step = "lock" -> (CASE c = "et" -> "et_st_lock" [] c = "gt" -> "gt_st_lock"
                             [] OTHER -> "rt_st_lock")
      [] step = "access" -> (CASE c = "et" -> "et_st_access" [] c = "gt" -> "gt_st_access"
                               [] OTHER -> "rt_st_access")
      [] step = "rest" -> (CASE c = "et" -> "et_st_rest" [] c = "gt" -> "gt_st_rest"
                             [] OTHER -> "rt_st_rest")
      [] OTHER -> (CASE c = "et" -> "dr_build" [] c = "gt" -> "gt_done" [] OTHER -> "rt_done")

AtStore(p, step) == pc[p] \in {StorePC(c, step) : c \in {"et", "gt", "rt"}}

\* Mutant of StoreLock: storeToken is entered without taking the mutex.
StoreLockSkipped(p) ==
    /\ AtStore(p, "lock")
    /\ pc' = [pc EXCEPT ![p] = StorePC(Caller(p), "access")]
    /\ resp' = [resp EXCEPT ![p] = NoResp]
    /\ UNCHANGED <<mu, fields, now, refreshTok, token, err, bearer, nRefresh, nAuth, wrote, nDomain, aux>>

\* c.mu.Lock() before c.storeToken(token)
StoreLock(p) ==
    /\ AtStore(p, "lock")
    /\ mu = Free
    /\ mu' = p
    /\ pc' = [pc EXCEPT ![p] = StorePC(Caller(p), "access")]
    /\ resp' = [resp EXCEPT ![p] = NoResp]
    /\ UNCHANGED <<fields, now, refreshTok, token, err, bearer, nRefresh, nAuth, wrote, nDomain, aux>>

\* Mutant of StoreAccessToken: the refresh token is assigned to accessToken.
StoreAccessTokenFromRefresh(p) ==
    /\ AtStore(p, "access")
    /\ accessToken' = token[p].refresh_token
    /\ wrote' = [wrote EXCEPT ![p] = TRUE]
    /\ pc' = [pc EXCEPT ![p] = StorePC(Caller(p), "rest")]
    /\ UNCHANGED <<resp, mu, refreshToken, expiresAt, refreshExpiresAt, now,
                   refreshTok, token, err, bearer, nRefresh, nAuth, nDomain, aux>>

\* Mutant of StoreAccessToken: an access token already stored is kept (the
\* first write wins).
StoreAccessTokenKeepsFirst(p) ==
    /\ AtStore(p, "access")
    /\ accessToken' = IF accessToken = "" THEN token[p].access_token ELSE accessToken
    /\ wrote' = [wrote EXCEPT ![p] = TRUE]
    /\ pc' = [pc EXCEPT ![p] = StorePC(Caller(p), "rest")]
    /\ UNCHANGED <<resp, mu, refreshToken, expiresAt, refreshExpiresAt, now,
                   refreshTok, token, err, bearer, nRefresh, nAuth, nDomain, aux>>

\* storeToken: c.accessToken = token.AccessToken
StoreAccessToken(p) ==
    /\ AtStore(p, "access")
    /\ accessToken' = token[p].access_token
    /\ wrote' = [wrote EXCEPT ![p] = TRUE]
    /\ pc' = [pc EXCEPT ![p] = StorePC(Caller(p), "rest")]
    /\ UNCHANGED <<resp, mu, refreshToken, expiresAt, refreshExpiresAt, now,
                   refreshTok, token, err, bearer, nRefresh, nAuth, nDomain, aux>>

\* Mutant of StoreRest: the two expiry fields are assigned crosswise.
StoreRestSwapsExpiries(p) ==
    /\ AtStore(p, "rest")
    /\ refreshToken' = token[p].refresh_token
    /\ expiresAt' = token[p].refresh_expires_in
    /\ refreshExpiresAt' = token[p].expires_in
    /\ mu' = Free
    /\ pc' = [pc EXCEPT ![p] = StorePC(Caller(p), "return")]
    /\ UNCHANGED <<accessToken, now, locals, aux>>

\* Mutant of StoreRest: the token is also kept in a package-level variable
\* that every Client reads its fields from.
StoreRestSharedState(p) ==
    /\ AtStore(p, "rest")
    /\ refreshToken' = token[p].refresh_token
    /\ expiresAt' = token[p].expires_in
    /\ refreshExpiresAt' = token[p].refresh_expires_in
    /\ other' = token[p]
    /\ mu' = Free
    /\ pc' = [pc EXCEPT ![p] = StorePC(Caller(p), "return")]
    /\ UNCHANGED <<accessToken, now, locals, failures, env, loaded, probe, verdict, dest, req, hdr>>

\* Mutant of StoreRest: expires_in and refresh_expires_in are taken as
\* durations and added to the current time.
StoreRestAddsNow(p) ==
    /\ AtStore(p, "rest")
    /\ refreshToken' = token[p].refresh_token
    /\ expiresAt' = now + token[p].expires_in
    /\ refreshExpiresAt' = now + token[p].refresh_expires_in
    /\ mu' = Free
    /\ pc' = [pc EXCEPT ![p] = StorePC(Caller(p), "return")]
    /\ UNCHANGED <<accessToken, now, locals, aux>>

\* Mutant of StoreRest: the caller returns from storeToken without
\* c.mu.Unlock().
StoreRestKeepsLock(p) ==
    /\ AtStore(p, "rest")
    /\ refreshToken' = token[p].refresh_token
    /\ expiresAt' = token[p].expires_in
    /\ refreshExpiresAt' = token[p].refresh_expires_in
    /\ pc' = [pc EXCEPT ![p] = StorePC(Caller(p), "return")]
    /\ UNCHANGED <<mu, accessToken, now, locals, aux>>

\* storeToken: the three other assignments; c.mu.Unlock(); return.
StoreRest(p) ==
    /\ AtStore(p, "rest")
    /\ refreshToken' = token[p].refresh_token
    /\ expiresAt' = token[p].expires_in
    /\ refreshExpiresAt' = token[p].refresh_expires_in
    /\ mu' = Free
    /\ pc' = [pc EXCEPT ![p] = StorePC(Caller(p), "return")]
    /\ UNCHANGED <<accessToken, now, locals, aux>>

\* ---------------------------------------------------------------- GetToken
\* c.getTokenRequest(ctx): the request leaves.
GetTokenSend(p) ==
    /\ pc[p] = "gt_auth"
    /\ nAuth' = [nAuth EXCEPT ![p] = @ + 1]
    /\ pc' = [pc EXCEPT ![p] = "gt_auth_wait"]
    /\ UNCHANGED <<resp, mu, fields, now, refreshTok, token, err, bearer, nRefresh, wrote, nDomain, aux>>

\* Mutant of GetTokenRecv: the token is stored whether or not the request
\* failed, and the error is returned afterwards.
GetTokenRecvStoresAnyway(p) ==
    /\ pc[p] = "gt_auth_wait"
    /\ \E o \in ServerOutcomes :
        /\ resp' = [resp EXCEPT ![p] = o]
        /\ LET r == getTokenRequest(o) IN
            /\ err' = [err EXCEPT ![p] = r.err]
            /\ token' = [token EXCEPT ![p] = r.token]
            /\ pc' = [pc EXCEPT ![p] = "gt_st_lock"]
    /\ UNCHANGED <<mu, fields, now, refreshTok, bearer, nRefresh, nAuth, wrote, nDomain, aux>>

\* getTokenRequest returns: return nil, err  or go on to store the token.
GetTokenRecv(p) ==
    /\ pc[p] = "gt_auth_wait"
    /\ \E o \in ServerOutcomes :
        /\ resp' = [resp EXCEPT ![p] = o]
        /\ LET r == getTokenRequest(o) IN
           IF r.err # NilErr
           THEN /\ err' = [err EXCEPT ![p] = r.err]
                /\ pc' = [pc EXCEPT ![p] = "gt_done"]
                /\ UNCHANGED token
           ELSE /\ token' = [token EXCEPT ![p] = r.token]
                /\ pc' = [pc EXCEPT ![p] = "gt_st_lock"]
                /\ UNCHANGED err
    /\ UNCHANGED <<mu, fields, now, refreshTok, bearer, nRefresh, nAuth, wrote, nDomain, aux>>

\* ------------------------------------------------------------ RefreshToken
\* c.mu.Lock()
RefreshTokenLock(p) ==
    /\ pc[p] = "rt_lock"
    /\ mu = Free
    /\ mu' = p
    /\ pc' = [pc EXCEPT ![p] = "rt_read"]
    /\ UNCHANGED <<fields, now, locals, aux>>

\* Mutant of RefreshTokenRead: with no refresh token stored the call gives up
\* before any request is made.
RefreshTokenReadSkipsEmpty(p) ==
    /\ pc[p] = "rt_read"
    /\ mu' = Free
    /\ IF refreshToken = ""
       THEN /\ err' = [err EXCEPT ![p] = JSONErr]
            /\ pc' = [pc EXCEPT ![p] = "rt_done"]
            /\ UNCHANGED refreshTok
       ELSE /\ refreshTok' = [refreshTok EXCEPT ![p] = refreshToken]
            /\ pc' = [pc EXCEPT ![p] = "rt_refresh"]
            /\ UNCHANGED err
    /\ UNCHANGED <<resp, fields, now, token, bearer, nRefresh, nAuth, wrote, nDomain, aux>>

\* refreshTok := c.refreshToken; c.mu.Unlock()
RefreshTokenRead(p) ==
    /\ pc[p] = "rt_read"
    /\ refreshTok' = [refreshTok EXCEPT ![p] = refreshToken]
    /\ mu' = Free
    /\ pc' = [pc EXCEPT ![p] = "rt_refresh"]
    /\ UNCHANGED <<resp, fields, now, token, err, bearer, nRefresh, nAuth, wrote, nDomain, aux>>

\* c.doRefreshTokenHTTP(ctx, refreshTok): the request leaves.
RefreshTokenSend(p) ==
    /\ pc[p] = "rt_refresh"
    /\ nRefresh' = [nRefresh EXCEPT ![p] = @ + 1]
    /\ pc' = [pc EXCEPT ![p] = "rt_refresh_wait"]
    /\ UNCHANGED <<resp, mu, fields, now, refreshTok, token, err, bearer, nAuth, wrote, nDomain, aux>>

\* doRefreshTokenHTTP returns: return nil, err  or go on to store the token.
RefreshTokenRecv(p) ==
    /\ pc[p] = "rt_refresh_wait"
    /\ \E o \in ServerOutcomes :
        /\ resp' = [resp EXCEPT ![p] = o]
        /\ LET r == doRefreshTokenHTTP(o) IN
           IF r.err # NilErr
           THEN /\ err' = [err EXCEPT ![p] = r.err]
                /\ pc' = [pc EXCEPT ![p] = "rt_done"]
                /\ UNCHANGED token
           ELSE /\ token' = [token EXCEPT ![p] = r.token]
                /\ pc' = [pc EXCEPT ![p] = "rt_st_lock"]
                /\ UNCHANGED err
    /\ refreshTok' = [refreshTok EXCEPT ![p] = ""]
    /\ UNCHANGED <<mu, fields, now, bearer, nRefresh, nAuth, wrote, nDomain, aux>>

\* --------------------------------------------------------------- doRequest
\* The values the unsynchronised read of c.accessToken in doRequest can give:
\* the stored string, or, when another goroutine is executing the assignment
\* of storeToken at that moment, the new string or a torn one.
RacyAccessToken ==
    {accessToken}
        \cup {token[q].access_token : q \in {r \in Procs : AtStore(r, "access")}}
        \cup (IF \E q \in Procs : AtStore(q, "access") THEN {Torn} ELSE {})

\* Mutant of DoRequestSend: a body that cannot be encoded is reported as an
\* *Error with status 400.
DoRequestSendMarshalAsQPayError(p) ==
    /\ pc[p] = "dr_build"
    /\ \E marshalOK \in BOOLEAN :
        IF ~marshalOK
        THEN /\ err' = [err EXCEPT ![p] = QPayErr(400, StatusText(400), "", "")]
             /\ pc' = [pc EXCEPT ![p] = "dr_done"]
             /\ UNCHANGED <<bearer, nDomain>>
        ELSE /\ \E b \in RacyAccessToken : bearer' = [bearer EXCEPT ![p] = b]
             /\ nDomain' = [nDomain EXCEPT ![p] = @ + 1]
             /\ pc' = [pc EXCEPT ![p] = "dr_wait"]
             /\ UNCHANGED err
    /\ UNCHANGED <<resp, mu, fields, now, refreshTok, token, nRefresh, nAuth, wrote, aux>>

\* json.Marshal(body) when body != nil, the request with its headers
\* (Authorization: "Bearer " + c.accessToken), and c.http.Do(req) leaving.
DoRequestSend(p) ==
    /\ pc[p] = "dr_build"
    /\ \E marshalOK \in BOOLEAN :
        IF ~marshalOK
        THEN /\ err' = [err EXCEPT ![p] = Wrap("failed to marshal request body", JSONErr)]
             /\ pc' = [pc EXCEPT ![p] = "dr_done"]
             /\ UNCHANGED <<bearer, nDomain>>
        ELSE /\ \E b \in RacyAccessToken : bearer' = [bearer EXCEPT ![p] = b]
             /\ nDomain' = [nDomain EXCEPT ![p] = @ + 1]
             /\ pc' = [pc EXCEPT ![p] = "dr_wait"]
             /\ UNCHANGED err
    /\ UNCHANGED <<resp, mu, fields, now, refreshTok, token, nRefresh, nAuth, wrote, aux>>

\* Mutant of DoRequestRecv: a 401 sends the call back to ensureToken to
\* authenticate and try the request again.
DoRequestRecvRetries401(p) ==
    /\ pc[p] = "dr_wait"
    /\ \E o \in ServerOutcomes, hasResult \in BOOLEAN :
        /\ resp' = [resp EXCEPT ![p] = o]
        /\ IF o.failed = "no" /\ o.status = 401
           THEN /\ pc' = [pc EXCEPT ![p] = "et_auth"]
                /\ UNCHANGED err
           ELSE /\ err' = [err EXCEPT ![p] = doRequestResult(o, hasResult)]
                /\ pc' = [pc EXCEPT ![p] = "dr_done"]
    /\ bearer' = [bearer EXCEPT ![p] = ""]
    /\ UNCHANGED <<mu, fields, now, refreshTok, token, nRefresh, nAuth, wrote, nDomain, aux>>

\* The response arrives and is classified.
DoRequestRecv(p) ==
    /\ pc[p] = "dr_wait"
    /\ \E o \in ServerOutcomes, hasResult \in BOOLEAN :
        /\ resp' = [resp EXCEPT ![p] = o]
        /\ err' = [err EXCEPT ![p] = doRequestResult(o, hasResult)]
    /\ bearer' = [bearer EXCEPT ![p] = ""]
    /\ pc' = [pc EXCEPT ![p] = "dr_done"]
    /\ UNCHANGED <<mu, fields, now, refreshTok, token, nRefresh, nAuth, wrote, nDomain, aux>>

\* The exported call has returned: its locals are gone and the goroutine is
\* free for its next call.
ReturnLocals(p) ==
    /\ pc[p] \in {"dr_fail", "dr_done", "gt_done", "rt_done"}
    /\ pc' = [pc EXCEPT ![p] = "idle"]
    /\ refreshTok' = [refreshTok EXCEPT ![p] = ""]
    /\ token' = [token EXCEPT ![p] = ZeroToken]
    /\ resp' = [resp EXCEPT ![p] = NoResp]
    /\ err' = [err EXCEPT ![p] = NilErr]
    /\ bearer' = [bearer EXCEPT ![p] = ""]
    /\ nRefresh' = [nRefresh EXCEPT ![p] = 0]
    /\ nAuth' = [nAuth EXCEPT ![p] = 0]
    /\ wrote' = [wrote EXCEPT ![p] = FALSE]
    /\ nDomain' = [nDomain EXCEPT ![p] = 0]
    /\ UNCHANGED <<mu, fields, now>>

\* The return of an exported call (doRequest, GetToken, RefreshToken).
Return(p) ==
    /\ ReturnLocals(p)
    /\ UNCHANGED aux

Next ==
    \/ Tick
    \/ \E p \in Procs :
        \/ Call(p)
        \/ EnsureTokenLock(p)
        \/ EnsureTokenCheck(p)
        \/ EnsureTokenRefreshSend(p)
        \/ EnsureTokenRefreshRecv(p)
        \/ EnsureTokenAuthSend(p)
        \/ EnsureTokenAuthRecv(p)
        \/ StoreLock(p)
        \/ StoreAccessToken(p)
        \/ StoreRest(p)
        \/ GetTokenSend(p)
        \/ GetTokenRecv(p)
        \/ RefreshTokenLock(p)
        \/ RefreshTokenRead(p)
        \/ RefreshTokenSend(p)
        \/ RefreshTokenRecv(p)
        \/ DoRequestSend(p)
        \/ DoRequestRecv(p)
        \/ Return(p)

Spec == Init /\ [][Next]_vars

\* ------------------------------------------------------------- scheduling
\* c.mu.Lock() returning to the goroutine.
Acquire(p) ==
    \/ EnsureTokenLock(p)
    \/ RefreshTokenLock(p)
    \/ StoreLock(p)

\* Every other step of a call in progress: the statements between the locks,
\* the HTTP exchanges going out and coming back, and the return.
Proceed(p) ==
    \/ EnsureTokenCheck(p)
    \/ EnsureTokenRefreshSend(p)
    \/ EnsureTokenRefreshRecv(p)
    \/ EnsureTokenAuthSend(p)
    \/ EnsureTokenAuthRecv(p)
    \/ StoreAccessToken(p)
    \/ StoreRest(p)
    \/ GetTokenSend(p)
    \/ GetTokenRecv(p)
    \/ RefreshTokenRead(p)
    \/ RefreshTokenSend(p)
    \/ RefreshTokenRecv(p)
    \/ DoRequestSend(p)
    \/ DoRequestRecv(p)
    \/ Return(p)

\* A goroutine that can run does run and every c.http.Do comes back (weak
\* fairness of its steps); a goroutine blocked in c.mu.Lock() gets the mutex
\* if it is free again and again (strong fairness: sync.Mutex hands the
\* mutex to a waiter that has been starved).  Nothing obliges a goroutine to
\* start a call, or the clock to advance.
Fairness ==
    \A p \in Procs :
        /\ WF_vars(Proceed(p))
        /\ SF_vars(Acquire(p))

\* The client at second 1 with the pair T2 stored: its access token has gone
\* stale and its refresh token is still usable.  No call is in progress.
InitStale ==
    /\ mu = Free
    /\ accessToken = T2.access_token
    /\ refreshToken = T2.refresh_token
    /\ expiresAt = T2.expires_in
    /\ refreshExpiresAt = T2.refresh_expires_in
    /\ now = 1
    /\ pc = [p \in Procs |-> "idle"]
    /\ refreshTok = [p \in Procs |-> ""]
    /\ token = [p \in Procs |-> ZeroToken]
    /\ resp = [p \in Procs |-> NoResp]
    /\ err = [p \in Procs |-> NilErr]
    /\ bearer = [p \in Procs |-> ""]
    /\ nRefresh = [p \in Procs |-> 0]
    /\ nAuth = [p \in Procs |-> 0]
    /\ wrote = [p \in Procs |-> FALSE]
    /\ nDomain = [p \in Procs |-> 0]
    /\ failures = 0
    /\ other = ZeroToken
    /\ env = [v \in EnvVars |-> ""]
    /\ loaded = NotLoaded
    /\ probe = NilErr
    /\ verdict = IsQPayError(NilErr)
    /\ dest = [p \in Procs |-> "none"]
    /\ req = [p \in Procs |-> NoRequest]
    /\ hdr = [p \in Procs |-> NotBuilt]

\* The calls of the goroutines within that second.
NextCalls ==
    \E p \in Procs :
        \/ Call(p)
        \/ Acquire(p)
        \/ Proceed(p)

\* The calls made on a client whose access token has gone stale, under the
\* scheduling assumptions: an ensureToken then refreshes (T2 stored),
\* authenticates (nothing stored) or returns at once (T1 stored).
SpecFair == InitStale /\ [][NextCalls]_vars /\ Fairness

\* ------------------------------------------------------------------ history
\* The same program with the failed calls counted: a return with a non-nil
\* error adds one to failures (up to MaxFailures).  No operation of the
\* client reads the count.
ReturnNoted(p) ==
    /\ ReturnLocals(p)
    /\ failures' = IF err[p] # NilErr /\ failures < MaxFailures THEN failures + 1 ELSE failures
    /\ UNCHANGED <<other, env, loaded, probe, verdict, dest, req, hdr>>

NextRetry ==
    \/ Tick
    \/ \E p \in Procs :
        \/ Call(p)
        \/ EnsureTokenLock(p)
        \/ EnsureTokenCheck(p)
        \/ EnsureTokenRefreshSend(p)
        \/ EnsureTokenRefreshRecv(p)
        \/ EnsureTokenAuthSend(p)
        \/ EnsureTokenAuthRecv(p)
        \/ StoreLock(p)
        \/ StoreAccessToken(p)
        \/ StoreRest(p)
        \/ GetTokenSend(p)
        \/ GetTokenRecv(p)
        \/ RefreshTokenLock(p)
        \/ RefreshTokenRead(p)
        \/ RefreshTokenSend(p)
        \/ RefreshTokenRecv(p)
        \/ DoRequestSend(p)
        \/ DoRequestRecv(p)
        \/ ReturnNoted(p)

SpecRetry == Init /\ [][NextRetry]_vars

\* --------------------------------------------------------------- instances
\* A second Client, made by its own NewClient call, next to the one the
\* goroutines above share.  The first GetToken on it, start to end: a token
\* that getTokenRequest returns without an error goes into its own four
\* fields.
OtherClientGetToken ==
    /\ other = ZeroToken
    /\ \E o \in ServerOutcomes :
        LET r == getTokenRequest(o) IN
            /\ r.err = NilErr
            /\ other' = r.token
    /\ UNCHANGED <<mu, fields, now, pc, locals, failures, env, loaded, probe, verdict, dest, req, hdr>>

NextInstances ==
    \/ Next
    \/ OtherClientGetToken

SpecInstances == Init /\ [][NextInstances]_vars

\* ------------------------------------------------------ configuration loading
\* os.Setenv(v, x) / os.Unsetenv(v): os.Getenv gives "" for a variable that
\* is unset and for one that is set to "".
Setenv(v, x) ==
    /\ env[v] # x
    /\ env' = [env EXCEPT ![v] = x]
    /\ UNCHANGED <<mu, fields, now, pc, locals, failures, other, loaded, probe, verdict, dest, req, hdr>>

\* A call of LoadConfigFromEnv in the environment as it is.
LoadConfig ==
    /\ \E r \in LoadConfigFromEnv(env) : loaded' = r
    /\ UNCHANGED <<mu, fields, now, pc, locals, failures, other, env, probe, verdict, dest, req, hdr>>

NextConfig ==
    \/ \E v \in EnvVars : \E x \in {"", ValueOf(v)} : Setenv(v, x)
    \/ LoadConfig

SpecConfig == Init /\ [][NextConfig]_vars

\* ----------------------------------------------------------- error predicate
\* The errors the client's calls return: a transport or JSON error, bare or
\* wrapped by doRequest, an *Error for each non-2xx response (with and
\* without the Code / Message defaults), and each of them wrapped once more
\* by ensureToken.
ReturnedErrors ==
    LET bare == {TransportErr, JSONErr, Wrap("request failed", TransportErr),
                 Wrap("failed to unmarshal response", JSONErr)}
                    \cup {DecodeError(o) : o \in {x \in Outcomes : IsErrorStatus(x.status)}}
                    \cup {WithDefaults(o, DecodeError(o)) :
                            o \in {x \in Outcomes : IsErrorStatus(x.status)}}
    IN  bare \cup {Wrap("failed to get token", e) : e \in bare}

\* A caller passes an error, or nil, to IsQPayError.
ProbeIsQPayError ==
    /\ \E e \in ReturnedErrors \cup {NilErr} :
        /\ probe' = e
        /\ verdict' = IsQPayError(e)
    /\ UNCHANGED <<mu, fields, now, pc, locals, failures, other, env, loaded, dest, req, hdr>>

NextErrors == ProbeIsQPayError

SpecErrors == Init /\ [][NextErrors]_vars

\* ------------------------------------------------------------- HTTP surface
\* A goroutine calls a domain operation; the request doRequest builds for it.
DomainCall(p) ==
    /\ \E op \in PlainOps : req' = [req EXCEPT ![p] = DomainRequest(op, "")]
    /\ UNCHANGED <<mu, fields, now, pc, locals, failures, other, env, loaded, probe, verdict, dest, hdr>>

\* The same for an operation that takes an invoice or payment id.
DomainCallWithId(p) ==
    /\ \E op \in IdOps, id \in IDs : req' = [req EXCEPT ![p] = DomainRequest(op, id)]
    /\ UNCHANGED <<mu, fields, now, pc, locals, failures, other, env, loaded, probe, verdict, dest, hdr>>

\* The request of getTokenRequest (GetToken, or ensureToken's full
\* authentication).
AuthCall(p) ==
    /\ req' = [req EXCEPT ![p] = AuthRequest]
    /\ UNCHANGED <<mu, fields, now, pc, locals, failures, other, env, loaded, probe, verdict, dest, hdr>>

\* The request of doRefreshTokenHTTP (RefreshToken, or ensureToken's refresh).
RefreshCall(p) ==
    /\ req' = [req EXCEPT ![p] = RefreshRequest]
    /\ UNCHANGED <<mu, fields, now, pc, locals, failures, other, env, loaded, probe, verdict, dest, hdr>>

NextSurface ==
    \E p \in Procs :
        \/ DomainCall(p)
        \/ DomainCallWithId(p)
        \/ AuthCall(p)
        \/ RefreshCall(p)

SpecSurface == Init /\ [][NextSurface]_vars

\* ---------------------------------------------------------- request headers
\* The requests of the three request functions, on a Client whose token
\* fields the calls of GetToken in between replace.
\* GetToken, start to end, answered with a token pair.
GetTokenCall ==
    /\ \E o \in ServerOutcomes :
        LET r == getTokenRequest(o) IN
            /\ r.err = NilErr
            /\ accessToken' = r.token.access_token
            /\ refreshToken' = r.token.refresh_token
            /\ expiresAt' = r.token.expires_in
            /\ refreshExpiresAt' = r.token.refresh_expires_in
    /\ UNCHANGED <<mu, now, pc, locals, aux>>

\* doRequest builds its request, body or none.
BuildDoRequest(p) ==
    /\ \E cfg \in Configs, hasBody \in BOOLEAN, b \in RacyAccessToken :
        hdr' = [hdr EXCEPT ![p] = Built("doRequest", cfg, hasBody, DoRequestHeader(hasBody, b))]
    /\ UNCHANGED <<mu, fields, now, pc, locals, failures, other, env, loaded, probe, verdict,
                   dest, req>>

\* doBasicAuthRequest builds its request (the body is nil).
BuildDoBasicAuthRequest(p) ==
    /\ \E cfg \in Configs :
        hdr' = [hdr EXCEPT ![p] = Built("doBasicAuthRequest", cfg, FALSE, DoBasicAuthHeader(cfg))]
    /\ UNCHANGED <<mu, fields, now, pc, locals, failures, other, env, loaded, probe, verdict,
                   dest, req>>

\* doRefreshTokenHTTP builds its request (the body is nil) with the refresh
\* token its caller read from the Client.
BuildDoRefreshRequest(p) ==
    /\ \E cfg \in Configs :
        hdr' = [hdr EXCEPT ![p] =
                    Built("doRefreshTokenHTTP", cfg, FALSE, DoRefreshHeader(refreshToken))]
    /\ UNCHANGED <<mu, fields, now, pc, locals, failures, other, env, loaded, probe, verdict,
                   dest, req>>

NextHeaders ==
    \/ GetTokenCall
    \/ \E p \in Procs :
        \/ BuildDoRequest(p)
        \/ BuildDoBasicAuthRequest(p)
        \/ BuildDoRefreshRequest(p)

SpecHeaders == Init /\ [][NextHeaders]_vars

\* --------------------------------------------------------------- transport
\* The three request functions on their own: one call of each, over every
\* outcome of the exchange, with nothing else running in between.
TransportPCs == {"x_domain", "x_auth", "x_refresh"}

\* doRequest from c.http.Do(req) on.
DoRequestExchange(p) ==
    /\ pc[p] = "idle"
    /\ \E o \in Outcomes, hasResult \in BOOLEAN :
        /\ resp' = [resp EXCEPT ![p] = o]
        /\ err' = [err EXCEPT ![p] = doRequestResult(o, hasResult)]
        /\ dest' = [dest EXCEPT ![p] = doRequestDest(o, hasResult)]
    /\ pc' = [pc EXCEPT ![p] = "x_domain"]
    /\ UNCHANGED <<mu, fields, now, refreshTok, token, bearer, nRefresh, nAuth, wrote, nDomain,
                   failures, other, env, loaded, probe, verdict, req, hdr>>

\* doBasicAuthRequest(ctx, "POST", "/v2/auth/token", &token)
DoBasicAuthExchange(p) ==
    /\ pc[p] = "idle"
    /\ \E o \in Outcomes :
        /\ resp' = [resp EXCEPT ![p] = o]
        /\ err' = [err EXCEPT ![p] = doBasicAuthRequest(o).err]
        /\ token' = [token EXCEPT ![p] = doBasicAuthRequest(o).token]
    /\ pc' = [pc EXCEPT ![p] = "x_auth"]
    /\ UNCHANGED <<mu, fields, now, refreshTok, bearer, nRefresh, nAuth, wrote, nDomain, aux>>

\* doRefreshTokenHTTP(ctx, refreshTok)
DoRefreshExchange(p) ==
    /\ pc[p] = "idle"
    /\ \E o \in Outcomes :
        /\ resp' = [resp EXCEPT ![p] = o]
        /\ err' = [err EXCEPT ![p] = doRefreshTokenHTTP(o).err]
        /\ token' = [token EXCEPT ![p] = doRefreshTokenHTTP(o).token]
    /\ pc' = [pc EXCEPT ![p] = "x_refresh"]
    /\ UNCHANGED <<mu, fields, now, refreshTok, bearer, nRefresh, nAuth, wrote, nDomain, aux>>

\* The result has been looked at; the goroutine makes its next call.
ExchangeDone(p) ==
    /\ pc[p] \in TransportPCs
    /\ pc' = [pc EXCEPT ![p] = "idle"]
    /\ resp' = [resp EXCEPT ![p] = NoResp]
    /\ err' = [err EXCEPT ![p] = NilErr]
    /\ token' = [token EXCEPT ![p] = ZeroToken]
    /\ dest' = [dest EXCEPT ![p] = "none"]
    /\ UNCHANGED <<mu, fields, now, refreshTok, bearer, nRefresh, nAuth, wrote, nDomain,
                   failures, other, env, loaded, probe, verdict, req, hdr>>

NextTransport ==
    \E p \in Procs :
        \/ DoRequestExchange(p)
        \/ DoBasicAuthExchange(p)
        \/ DoRefreshExchange(p)
        \/ ExchangeDone(p)

SpecTransport == Init /\ [][NextTransport]_vars

\* ================================================================== claims
\* The four token fields as one record.
FieldsAsToken == Tok(accessToken, refreshToken, expiresAt, refreshExpiresAt)

\* A token that is non-empty and good for more than the 30 second margin.
ValidBeyondMargin(a, e, n) == a # "" /\ n < e - tokenBufferSeconds

\* The exchange ended with a status outside [200,300).
NonSuccess(o) == o.failed = "no" /\ (o.status < 200 \/ o.status >= 300)

\* The refresh call succeeded: a 2xx status and a JSON object as body.
RefreshSucceeded(o) == o.failed = "no" /\ ~NonSuccess(o) /\ o.body.kind = "json"

\* The full authentication succeeded: a 2xx status and a body that is empty
\* or a JSON object.
AuthSucceeded(o) == o.failed = "no" /\ ~NonSuccess(o) /\ o.body.kind \in {"empty", "json"}

\* The goroutine is inside one of its HTTP exchanges.
InFlight(p) ==
    pc[p] \in {"et_refresh_wait", "et_auth_wait", "gt_auth_wait", "rt_refresh_wait", "dr_wait"}

\* C1: an ensureToken call that finds the stored access token non-empty and
\* now < expiresAt - 30 returns nil at once: it has issued no refresh and no
\* authentication request and the four token fields are as they were.
C1_CacheHit ==
    [][\A p \in Procs :
        (pc[p] = "et_check" /\ pc'[p] # "et_check"
            /\ ValidBeyondMargin(accessToken, expiresAt, now))
        => /\ pc'[p] = "dr_build"
           /\ err'[p] = NilErr
           /\ nRefresh'[p] = 0 /\ nAuth'[p] = 0
           /\ ~wrote'[p]
           /\ FieldsAsToken' = FieldsAsToken]_vars

\* A caller past ensureToken with no request issued and nothing written, on
\* a client that holds a token: a cache hit.
C1_Witness ==
    \E p \in Procs :
        pc[p] = "dr_build" /\ nRefresh[p] = 0 /\ nAuth[p] = 0 /\ ~wrote[p] /\ accessToken # ""

\* C2: with a stale access token and a usable refresh token ensureToken sends
\* one refresh request; when that succeeds it sends no authentication
\* request, stores the refreshed pair and returns nil.
C2_RefreshPreferred ==
    [][\A p \in Procs :
        /\ (pc[p] = "et_check" /\ pc'[p] # "et_check"
                /\ ~ValidBeyondMargin(accessToken, expiresAt, now)
                /\ ValidBeyondMargin(refreshToken, refreshExpiresAt, now))
           => pc'[p] = "et_refresh"
        /\ (pc[p] = "et_refresh" /\ pc'[p] # "et_refresh")
           => (pc'[p] = "et_refresh_wait" /\ nRefresh'[p] = 1 /\ nAuth'[p] = 0)
        /\ (pc[p] = "et_refresh_wait" /\ pc'[p] # "et_refresh_wait"
                /\ RefreshSucceeded(resp'[p]))
           => (pc'[p] = "et_st_lock" /\ token'[p] = resp'[p].body.tok
                /\ nRefresh'[p] = 1 /\ nAuth'[p] = 0)
        /\ (pc[p] = "et_st_rest" /\ pc'[p] # "et_st_rest" /\ nAuth[p] = 0)
           => (pc'[p] = "dr_build" /\ err'[p] = NilErr /\ FieldsAsToken' = token[p]
                /\ nRefresh'[p] = 1 /\ nAuth'[p] = 0)]_vars

\* A caller whose ensureToken returned nil after one refresh request and no
\* authentication request, with the refreshed pair stored.
C2_Witness ==
    \E p \in Procs :
        /\ pc[p] = "dr_build" /\ nRefresh[p] = 1 /\ nAuth[p] = 0 /\ wrote[p]
        /\ token[p] \in TokenResponses /\ FieldsAsToken = token[p]

\* C3: a refresh answered with a non-2xx status is not returned; ensureToken
\* then sends exactly one authentication request and, when that succeeds,
\* stores its pair and returns nil.
C3_Fallback ==
    [][\A p \in Procs :
        /\ (pc[p] = "et_refresh_wait" /\ pc'[p] # "et_refresh_wait" /\ NonSuccess(resp'[p]))
           => (pc'[p] = "et_auth" /\ err'[p] = NilErr /\ nAuth'[p] = 0)
        /\ (pc[p] = "et_auth" /\ pc'[p] # "et_auth")
           => (pc'[p] = "et_auth_wait" /\ nAuth'[p] = 1)
        /\ (pc[p] = "et_auth_wait" /\ pc'[p] # "et_auth_wait" /\ AuthSucceeded(resp'[p]))
           => (pc'[p] = "et_st_lock" /\ nAuth'[p] = 1
                /\ token'[p] = IF resp'[p].body.kind = "empty" THEN ZeroToken
                               ELSE resp'[p].body.tok)
        /\ (pc[p] = "et_st_rest" /\ pc'[p] # "et_st_rest" /\ nAuth[p] = 1)
           => (pc'[p] = "dr_build" /\ err'[p] = NilErr /\ FieldsAsToken' = token[p]
                /\ nAuth'[p] = 1)]_vars

\* A caller whose refresh was answered 401 and who stands, with no error,
\* before the full authentication.
C3_Witness ==
    \E p \in Procs :
        pc[p] = "et_auth" /\ nRefresh[p] = 1 /\ resp[p].status = 401 /\ err[p] = NilErr

\* C4: when the full authentication of ensureToken fails, ensureToken returns
\* an error, and neither that step nor any earlier step of the call has
\* assigned a token field.
C4_NonCorruption ==
    [][\A p \in Procs :
        (pc[p] = "et_auth_wait" /\ pc'[p] # "et_auth_wait" /\ ~AuthSucceeded(resp'[p]))
        => /\ pc'[p] = "dr_fail"
           /\ err'[p] # NilErr
           /\ ~wrote'[p]
           /\ FieldsAsToken' = FieldsAsToken]_vars

\* A failed ensureToken on a client that holds a token pair.
C4_Witness ==
    \E p \in Procs : pc[p] = "dr_fail" /\ ~wrote[p] /\ FieldsAsToken \in TokenResponses

\* C5 as stated: whenever ensureToken returns nil the stored access token is
\* non-empty and now < expiresAt - 30.
C5_ValidOnSuccess ==
    [][\A p \in Procs :
        (pc[p] \in EnsurePCs /\ pc'[p] = "dr_build")
        => ValidBeyondMargin(accessToken', expiresAt', now')]_vars

\* C5 amended: when ensureToken returns nil, the stored access token is valid
\* beyond the margin exactly if the call was a cache hit or the token response
\* it has just installed carries a non-empty access_token with
\* now < expires_in - 30.
C5_ValidIffResponseValid ==
    [][\A p \in Procs :
        (pc[p] \in EnsurePCs /\ pc'[p] = "dr_build")
        => (ValidBeyondMargin(accessToken', expiresAt', now')
            <=> (pc[p] = "et_check"
                 \/ ValidBeyondMargin(token[p].access_token, token[p].expires_in, now)))]_vars

\* ensureToken has returned nil having stored a pair that is already stale.
C5_Witness ==
    \E p \in Procs :
        /\ pc[p] = "dr_build" /\ wrote[p] /\ FieldsAsToken = token[p]
        /\ ~ValidBeyondMargin(token[p].access_token, token[p].expires_in, now)

\* The program points whose next step reads or assigns a token field.
TouchesFields(p) ==
    \/ pc[p] \in {"et_check", "rt_read", "dr_build"}
    \/ AtStore(p, "access")
    \/ AtStore(p, "rest")

\* C6: every read and every write of a token field is made by a goroutine
\* that holds the mutex, the read of accessToken in doRequest included.
C6_LockDiscipline == \A p \in Procs : TouchesFields(p) => mu = p

\* C7: a goroutine never holds the mutex while one of its HTTP exchanges is
\* in flight.
C7_NoLockInFlight == \A p \in Procs : InFlight(p) => mu # p

\* One caller's authentication is pending while another holds the mutex on a
\* fresh token, about to leave ensureToken by the cache hit.
C7_Witness ==
    \E p, q \in Procs :
        /\ p # q
        /\ pc[q] \in {"et_auth_wait", "et_refresh_wait", "gt_auth_wait"}
        /\ pc[p] = "et_check" /\ mu = p
        /\ ValidBeyondMargin(accessToken, expiresAt, now)

\* C8: while the mutex is free the four fields are the initial ones or those
\* of one token response.
C8_WholesaleReplacement ==
    mu = Free => FieldsAsToken \in TokenResponses \cup {ZeroToken}

\* Two callers have both stored a pair and the state is one response.
C8_Witness ==
    /\ mu = Free
    /\ FieldsAsToken \in TokenResponses
    /\ \A p \in Procs : wrote[p] /\ token[p] \in TokenResponses
    /\ \E p, q \in Procs : token[p] # token[q]

\* C9 as stated: the callers of ensureToken share one acquisition, so no two
\* of them have a refresh or authentication request out at once.
C9_SharedAcquisition ==
    Cardinality({p \in Procs : pc[p] \in {"et_refresh_wait", "et_auth_wait"}}) <= 1

\* C9 amended: every caller of ensureToken that finds the token stale makes
\* its own acquisition, of at most one refresh request and one authentication
\* request.
C9_OwnAcquisition ==
    \A p \in Procs :
        /\ nRefresh[p] <= 1
        /\ nAuth[p] <= 1

\* Two callers of ensureToken each have their authentication request out.
C9_Witness == \A p \in Procs : pc[p] = "et_auth_wait" /\ nAuth[p] = 1

\* C10: a non-2xx answer to the full authentication of ensureToken reaches
\* the caller as the *Error itself, so IsQPayError gives (that error, true).
C10_AuthErrorIsQPayError ==
    \A p \in Procs :
        (pc[p] = "dr_fail" /\ NonSuccess(resp[p]))
        => /\ IsQPayError(err[p]) = <<err[p], TRUE>>
           /\ err[p].StatusCode = resp[p].status

\* C11: GetToken always sends one request to /v2/auth/token and RefreshToken
\* always sends one request to /v2/auth/refresh, carrying the refresh token
\* it read from the client, whatever the token fields hold (a fresh access
\* token, an empty or expired refresh token); neither sends a second request
\* nor a request to the other endpoint.
C11_ExactlyOneCall ==
    [][\A p \in Procs :
        /\ (pc[p] = "gt_auth" /\ pc'[p] # pc[p])
           => (pc'[p] = "gt_auth_wait" /\ nAuth[p] = 0 /\ nAuth'[p] = 1)
        /\ (pc[p] = "rt_read" /\ pc'[p] # pc[p])
           => (pc'[p] = "rt_refresh" /\ refreshTok'[p] = refreshToken /\ nRefresh'[p] = 0)
        /\ (pc[p] = "rt_refresh" /\ pc'[p] # pc[p])
           => (pc'[p] = "rt_refresh_wait" /\ refreshTok'[p] = refreshTok[p]
                  /\ nRefresh'[p] = 1)
        /\ pc'[p] \in GetTokenPCs \ {"gt_auth"} => (nAuth'[p] = 1 /\ nRefresh'[p] = 0)
        /\ pc'[p] \in {"rt_refresh_wait", "rt_st_lock", "rt_st_access", "rt_st_rest", "rt_done"}
           => (nRefresh'[p] = 1 /\ nAuth'[p] = 0)]_vars

\* RefreshToken has its request out with an empty refresh token, on a client
\* that has never stored one.
C11_Witness ==
    \E p \in Procs :
        pc[p] = "rt_refresh_wait" /\ refreshTok[p] = "" /\ nRefresh[p] = 1 /\ refreshToken = ""

\* C12: at the return of a successful GetToken or RefreshToken the four token
\* fields are the four fields of the TokenResponse it returns.
C12_StoresWhatItReturns ==
    [][\A p \in Procs :
        (pc[p] \in {"gt_st_rest", "rt_st_rest"} /\ pc'[p] # pc[p])
        => /\ pc'[p] \in {"gt_done", "rt_done"}
           /\ err'[p] = NilErr
           /\ accessToken' = token'[p].access_token
           /\ refreshToken' = token'[p].refresh_token
           /\ expiresAt' = token'[p].expires_in
           /\ refreshExpiresAt' = token'[p].refresh_expires_in]_vars

\* RefreshToken has returned T2 over a client that held T1 before.
C12_Witness ==
    \E p \in Procs :
        /\ pc[p] = "rt_done" /\ err[p] = NilErr /\ token[p] = T2
        /\ FieldsAsToken = T2
        /\ \A q \in Procs \ {p} : pc[q] = "idle"

\* C13: when the request of GetToken or RefreshToken fails (no response, a
\* status outside [200,300), a body that is not JSON, and for RefreshToken
\* also no body), the call returns a nil token and a non-nil error without
\* having assigned any token field, and the failing step changes none.
C13_FailureLeavesState ==
    [][\A p \in Procs :
        /\ (pc[p] = "gt_auth_wait" /\ pc'[p] # pc[p] /\ ~AuthSucceeded(resp'[p]))
           => /\ pc'[p] = "gt_done"
              /\ err'[p] # NilErr
              /\ token'[p] = ZeroToken
              /\ ~wrote'[p]
              /\ FieldsAsToken' = FieldsAsToken
        /\ (pc[p] = "rt_refresh_wait" /\ pc'[p] # pc[p] /\ ~RefreshSucceeded(resp'[p]))
           => /\ pc'[p] = "rt_done"
              /\ err'[p] # NilErr
              /\ token'[p] = ZeroToken
              /\ ~wrote'[p]
              /\ FieldsAsToken' = FieldsAsToken]_vars

\* GetToken has returned the error of a 401 on a client that holds T1.
C13_Witness ==
    \E p \in Procs :
        /\ pc[p] = "gt_done" /\ NonSuccess(resp[p]) /\ err[p] # NilErr
        /\ token[p] = ZeroToken /\ ~wrote[p]
        /\ FieldsAsToken = T1

\* C14: a caller goes on to storeToken only with the token pair decoded from
\* the JSON body of a 2xx response; an exchange that failed, or a 2xx answer
\* without a body, leads to no write of the token fields.
C14_OnlyDecodedSuccessStored ==
    \A p \in Procs :
        AtStore(p, "lock")
        => /\ resp[p].failed = "no"
           /\ ~NonSuccess(resp[p])
           /\ resp[p].body.kind = "json"
           /\ token[p] = resp[p].body.tok

\* C15: a domain call or a full-authentication call whose response has a
\* status outside [200,300) returns an *Error with that status as StatusCode,
\* the body as RawBody, and the body's error and message keys as Code and
\* Message when the body is a JSON object that has them.
C15_NonSuccessClassified ==
    \A p \in Procs :
        (pc[p] \in {"x_domain", "x_auth"} /\ NonSuccess(resp[p]))
        => /\ err[p].type = "*Error"
           /\ err[p].wraps = <<>>
           /\ err[p].StatusCode = resp[p].status
           /\ err[p].RawBody = resp[p].body.raw
           /\ (resp[p].body.kind = "json" /\ resp[p].body.error # "")
              => err[p].Code = resp[p].body.error
           /\ (resp[p].body.kind = "json" /\ resp[p].body.message # "")
              => err[p].Message = resp[p].body.message

\* A domain call answered 400 with the INVOICE_NOTFOUND object.
C15_Witness ==
    \E p \in Procs :
        /\ pc[p] = "x_domain"
        /\ resp[p] = Outcome("no", 400, InvoiceNotFoundBody)
        /\ err[p].StatusCode = 400
        /\ err[p].Code = "INVOICE_NOTFOUND"
        /\ err[p].Message = "Invoice not found"

\* C16: for a response with a status outside [200,300), from the domain, the
\* authentication or the refresh endpoint, the returned error has the body's
\* error key as Code, or the HTTP status text when the body is not JSON or
\* has no such key, and the body's message key as Message, or the raw body
\* when it is not JSON or has no such key.
C16_ErrorDefaults ==
    \A p \in Procs :
        (pc[p] \in TransportPCs /\ NonSuccess(resp[p]))
        => /\ err[p].Code =
                IF resp[p].body.kind = "json" /\ resp[p].body.error # ""
                THEN resp[p].body.error
                ELSE StatusText(resp[p].status)
           /\ err[p].Message =
                IF resp[p].body.kind = "json" /\ resp[p].body.message # ""
                THEN resp[p].body.message
                ELSE resp[p].body.raw

\* C17: a call that returns, with an error or without, leaves the goroutine
\* free for its next call and the mutex not held by it; and however many
\* calls have failed before, an ensureToken that finds no fresh token sends a
\* refresh or an authentication request again, and a successful answer to it
\* is stored and ensureToken returns nil.
C17_NoTerminalState ==
    [][\A p \in Procs :
        /\ (pc[p] \in {"dr_fail", "dr_done", "gt_done", "rt_done"} /\ pc'[p] # pc[p])
           => (pc'[p] = "idle" /\ mu' # p /\ FieldsAsToken' = FieldsAsToken)
        /\ (pc[p] = "et_check" /\ pc'[p] # pc[p]
                /\ ~ValidBeyondMargin(accessToken, expiresAt, now))
           => pc'[p] \in {"et_refresh", "et_auth"}
        /\ (pc[p] = "et_refresh_wait" /\ pc'[p] # pc[p])
           => pc'[p] = IF RefreshSucceeded(resp'[p]) THEN "et_st_lock" ELSE "et_auth"
        /\ (pc[p] = "et_auth" /\ pc'[p] # pc[p])
           => pc'[p] = "et_auth_wait"
        /\ (pc[p] = "et_auth_wait" /\ pc'[p] # pc[p] /\ AuthSucceeded(resp'[p]))
           => pc'[p] = "et_st_lock"
        /\ (pc[p] = "et_st_rest" /\ pc'[p] # pc[p])
           => (pc'[p] = "dr_build" /\ err'[p] = NilErr)]_vars

\* After MaxFailures failed calls on a client that still has no token, an
\* ensureToken has authenticated, stored T1 and returned nil.
C17_Witness ==
    /\ failures = MaxFailures
    /\ \E p \in Procs :
        /\ pc[p] = "dr_build" /\ err[p] = NilErr
        /\ nAuth[p] = 1 /\ wrote[p] /\ token[p] = T1
        /\ \A q \in Procs \ {p} : pc[q] = "idle"

\* C18: doRequest sends its request only from the point ensureToken returned
\* nil to (no error, no domain request sent before); when ensureToken returns
\* an error doRequest returns with that error set and without having sent a
\* domain request.
C18_RequestAfterEnsureToken ==
    [][\A p \in Procs :
        /\ nDomain'[p] > nDomain[p]
           => (pc[p] = "dr_build" /\ err[p] = NilErr /\ nDomain[p] = 0)
        /\ pc'[p] \in EnsurePCs \cup {"dr_fail", "dr_build"} => nDomain'[p] = 0
        /\ (pc[p] \in EnsurePCs /\ pc'[p] = "dr_fail") => err'[p] # NilErr
        /\ (pc[p] = "dr_fail" /\ pc'[p] # pc[p])
           => (pc'[p] = "idle" /\ err[p] # NilErr /\ nDomain[p] = 0)]_vars

\* One domain operation has returned the error of its ensureToken with no
\* domain request sent, while another has its domain request out.
C18_Witness ==
    \E p, q \in Procs :
        /\ pc[p] = "dr_fail" /\ err[p] # NilErr /\ nAuth[p] = 1 /\ nDomain[p] = 0
        /\ pc[q] = "dr_wait" /\ err[q] = NilErr /\ nDomain[q] = 1

\* C19: a domain operation sends at most one domain request; whatever the
\* answer, the call ends there: a status outside [200,300), 401 included,
\* is returned as an *Error, and the step sends no refresh or authentication
\* request and changes no token field.
C19_NoAutomaticRetry ==
    [][\A p \in Procs :
        /\ nDomain'[p] <= 1
        /\ (pc[p] = "dr_wait" /\ pc'[p] # pc[p])
           => /\ pc'[p] = "dr_done"
              /\ nDomain'[p] = 1
              /\ nRefresh'[p] = nRefresh[p] /\ nAuth'[p] = nAuth[p]
              /\ FieldsAsToken' = FieldsAsToken
              /\ NonSuccess(resp'[p])
                 => (err'[p].type = "*Error" /\ err'[p].StatusCode = resp'[p].status)
        /\ (pc[p] = "dr_done" /\ pc'[p] # pc[p]) => pc'[p] = "idle"]_vars

\* A domain operation on a cached token was answered 401 and has returned
\* the *Error, with one domain request and no token request sent.
C19_Witness ==
    \E p \in Procs :
        /\ pc[p] = "dr_done" /\ resp[p].status = 401
        /\ err[p].type = "*Error" /\ err[p].StatusCode = 401
        /\ nDomain[p] = 1 /\ nRefresh[p] = 0 /\ nAuth[p] = 0

\* C20: a step of any operation on one Client, successful or failing, leaves
\* the four token fields of the other Client as they are, in both
\* directions.
C20_InstanceIndependence ==
    [][/\ (\E p \in Procs : pc'[p] # pc[p]) => other' = other
       /\ FieldsAsToken' # FieldsAsToken => other' = other
       /\ other' # other => (FieldsAsToken' = FieldsAsToken /\ mu' = mu)]_vars

\* The two clients hold different token pairs, each stored by its own
\* operation, and a call on the first has just failed.
C20_Witness ==
    /\ other = T1
    /\ FieldsAsToken = T2
    /\ \E p \in Procs : pc[p] = "gt_done" /\ err[p] # NilErr
    /\ \E q \in Procs : pc[q] = "rt_done" /\ wrote[q] /\ token[q] = T2

\* C21: a client starts with accessToken and refreshToken empty; an
\* ensureToken that finds them empty sends no refresh request and exactly one
\* authentication request, and on a successful answer stores the decoded pair
\* and returns nil.
C21_InitialState ==
    /\ accessToken = "" /\ refreshToken = ""
    /\ [][\A p \in Procs :
            /\ (pc[p] = "et_check" /\ pc'[p] # pc[p] /\ accessToken = "" /\ refreshToken = "")
               => (pc'[p] = "et_auth" /\ nRefresh'[p] = 0 /\ nAuth'[p] = 0)
            /\ (pc[p] = "et_auth" /\ pc'[p] # pc[p] /\ nRefresh[p] = 0)
               => (pc'[p] = "et_auth_wait" /\ nRefresh'[p] = 0 /\ nAuth'[p] = 1)
            /\ (pc[p] = "et_auth_wait" /\ pc'[p] # pc[p] /\ nRefresh[p] = 0
                    /\ AuthSucceeded(resp'[p]))
               => (pc'[p] = "et_st_lock" /\ token'[p] = resp'[p].body.tok
                      /\ nRefresh'[p] = 0 /\ nAuth'[p] = 1)
            /\ (pc[p] = "et_st_rest" /\ pc'[p] # pc[p] /\ nRefresh[p] = 0)
               => (pc'[p] = "dr_build" /\ err'[p] = NilErr /\ FieldsAsToken' = token[p]
                      /\ nRefresh'[p] = 0 /\ nAuth'[p] = 1)]_vars

\* The only call made so far on the client was an ensureToken: it has sent
\* one authentication request and no refresh request, stored T1 and returned
\* nil.
C21_Witness ==
    \E p \in Procs :
        /\ pc[p] = "dr_build" /\ err[p] = NilErr
        /\ nAuth[p] = 1 /\ nRefresh[p] = 0 /\ wrote[p]
        /\ FieldsAsToken = T1 /\ token[p] = T1
        /\ \A q \in Procs \ {p} : pc[q] = "idle"

\* C22: LoadConfigFromEnv returns a Config exactly when all five variables
\* are non-empty, and then its five fields are the five values and the error
\* is nil; otherwise it returns a nil Config and an error naming one of the
\* five variables that is empty in the environment it read.
C22_LoadConfigFromEnv ==
    loaded.called
    => /\ ~loaded.isNil <=> (\A v \in EnvVars : loaded.env[v] # "")
       /\ ~loaded.isNil
          => /\ loaded.missing = ""
             /\ loaded.config.BaseURL = loaded.env["QPAY_BASE_URL"]
             /\ loaded.config.Username = loaded.env["QPAY_USERNAME"]
             /\ loaded.config.Password = loaded.env["QPAY_PASSWORD"]
             /\ loaded.config.InvoiceCode = loaded.env["QPAY_INVOICE_CODE"]
             /\ loaded.config.CallbackURL = loaded.env["QPAY_CALLBACK_URL"]
       /\ loaded.isNil
          => /\ loaded.missing \in EnvVars
             /\ loaded.env[loaded.missing] = ""

\* With two variables empty the call failed naming QPAY_PASSWORD, and the
\* environment has since been completed.
C22_Witness ==
    /\ loaded.called /\ loaded.isNil
    /\ loaded.missing = "QPAY_PASSWORD"
    /\ loaded.env["QPAY_BASE_URL"] = ""
    /\ loaded.env["QPAY_USERNAME"] # ""
    /\ \A v \in EnvVars : env[v] # ""

\* C23: IsQPayError gives (err, true), with err the very error passed, when
\* that error is itself an *Error, and (nil, false) for nil, for an error of
\* another type, and for an error that wraps an *Error.
C23_IsQPayError ==
    /\ (probe # NilErr /\ probe.type = "*Error" /\ probe.wraps = <<>>)
       => verdict = <<probe, TRUE>>
    /\ probe = NilErr => verdict = <<NilErr, FALSE>>
    /\ (probe # NilErr /\ probe.type # "*Error") => verdict = <<NilErr, FALSE>>
    /\ (\E i \in 1..Len(probe.wraps) : probe.wraps[i] = "*Error")
       => verdict = <<NilErr, FALSE>>

\* IsQPayError was given the error of ensureToken that wraps the *Error of a
\* 401, and returned (nil, false).
C23_Witness ==
    /\ probe.type = "*fmt.wrapError"
    /\ probe.wraps = <<"*Error">>
    /\ probe.StatusCode = 401
    /\ verdict = <<NilErr, FALSE>>

\* The method and path prefix the interface table gives each operation.
SurfaceTable ==
    [CreateInvoice |-> <<"POST", "/v2/invoice">>,
     CreateSimpleInvoice |-> <<"POST", "/v2/invoice">>,
     CreateEbarimtInvoice |-> <<"POST", "/v2/invoice">>,
     CancelInvoice |-> <<"DELETE", "/v2/invoice/">>,
     GetPayment |-> <<"GET", "/v2/payment/">>,
     CheckPayment |-> <<"POST", "/v2/payment/check">>,
     ListPayments |-> <<"POST", "/v2/payment/list">>,
     CancelPayment |-> <<"DELETE", "/v2/payment/cancel/">>,
     RefundPayment |-> <<"DELETE", "/v2/payment/refund/">>,
     CreateEbarimt |-> <<"POST", "/v2/ebarimt_v3/create">>,
     CancelEbarimt |-> <<"DELETE", "/v2/ebarimt_v3/">>]

\* The operations whose path ends in the id passed by the caller.
SurfaceWithId == {"CancelInvoice", "GetPayment", "CancelPayment", "RefundPayment", "CancelEbarimt"}

\* C24: the request of each domain operation has the method and the path of
\* the interface table (the id appended where the table has {id}) and
\* bearer credentials; the authentication request is POST /v2/auth/token
\* with Basic credentials and the refresh request POST /v2/auth/refresh with
\* bearer credentials.
C24_FixedSurface ==
    \A p \in Procs :
        /\ req[p].op \in DOMAIN SurfaceTable
           => /\ req[p].method = SurfaceTable[req[p].op][1]
              /\ req[p].path[1] = SurfaceTable[req[p].op][2]
              /\ Len(req[p].path) = IF req[p].op \in SurfaceWithId THEN 2 ELSE 1
              /\ req[p].op \in SurfaceWithId => req[p].path[2] \in IDs
              /\ req[p].auth = "Bearer"
        /\ req[p].op = "getTokenRequest"
           => (req[p].method = "POST" /\ req[p].path = <<"/v2/auth/token">>
                  /\ req[p].auth = "Basic")
        /\ req[p].op = "doRefreshTokenHTTP"
           => (req[p].method = "POST" /\ req[p].path = <<"/v2/auth/refresh">>
                  /\ req[p].auth = "Bearer")
        /\ req[p].op \in DOMAIN SurfaceTable \cup {"none", "getTokenRequest", "doRefreshTokenHTTP"}

\* One goroutine's last request is CancelPayment's DELETE for payment
\* "pay-2", the other's the refresh request.
C24_Witness ==
    \E p, q \in Procs :
        /\ req[p] = Request("CancelPayment", "DELETE", <<"/v2/payment/cancel/", "pay-2">>, "Bearer")
        /\ req[q].op = "doRefreshTokenHTTP"

\* C25: when ensureToken finds the access token not fresh, it goes to the
\* refresh exactly when the stored refresh token is non-empty and
\* now < refreshExpiresAt - 30, and to the full authentication, with no
\* refresh request sent, in every other case.
C25_StrategySelection ==
    [][\A p \in Procs :
        (pc[p] = "et_check" /\ pc'[p] # pc[p]
            /\ ~(accessToken # "" /\ now < expiresAt - tokenBufferSeconds))
        => /\ pc'[p] \in {"et_refresh", "et_auth"}
           /\ pc'[p] = "et_refresh"
              <=> (refreshToken # "" /\ now < refreshExpiresAt - tokenBufferSeconds)
           /\ nRefresh'[p] = 0 /\ nAuth'[p] = 0
           /\ refreshTok'[p] = refreshToken]_vars

\* ensureToken read a refresh token that is within 30 seconds of its expiry
\* and has its authentication request out, no refresh request sent.
C25_Witness ==
    \E p \in Procs :
        /\ pc[p] = "et_auth_wait" /\ nAuth[p] = 1 /\ nRefresh[p] = 0
        /\ refreshToken = T2.refresh_token
        /\ refreshExpiresAt = T2.refresh_expires_in
        /\ now = refreshExpiresAt - tokenBufferSeconds

\* C26: ensureToken returns by the cache hit exactly when accessToken is
\* non-empty and now < expiresAt - 30; from now = expiresAt - 30 on it goes
\* to a refresh or an authentication request.
C26_MarginBoundary ==
    [][\A p \in Procs :
        (pc[p] = "et_check" /\ pc'[p] # pc[p])
        => /\ pc'[p] = "dr_build" <=> (accessToken # "" /\ now < expiresAt - tokenBufferSeconds)
           /\ pc'[p] \in {"dr_build", "et_refresh", "et_auth"}
           /\ (accessToken # "" /\ now = expiresAt - tokenBufferSeconds)
              => pc'[p] \in {"et_refresh", "et_auth"}]_vars

\* At now = expiresAt - 30 exactly, with T2 stored, ensureToken has found the
\* token stale and is about to send its refresh request.
C26_Witness ==
    \E p \in Procs :
        /\ pc[p] = "et_refresh" /\ refreshTok[p] = T2.refresh_token
        /\ FieldsAsToken = T2
        /\ now = expiresAt - tokenBufferSeconds

\* C27: storeToken copies expires_in and refresh_expires_in into expiresAt
\* and refreshExpiresAt as they are, whatever the clock says, and ensureToken
\* compares the clock with them as instants: a pair stored at second 1 whose
\* expires_in is 31 is stale at once.
C27_AbsoluteExpiry ==
    [][\A p \in Procs :
        /\ (AtStore(p, "rest") /\ pc'[p] # pc[p])
           => /\ expiresAt' = token[p].expires_in
              /\ refreshExpiresAt' = token[p].refresh_expires_in
        /\ (pc[p] = "et_check" /\ pc'[p] # pc[p] /\ accessToken # "")
           => (pc'[p] = "dr_build" <=> now + tokenBufferSeconds < expiresAt)]_vars

\* A caller stored T2 (expires_in 31) when the clock was past 0 and has just
\* returned, the clock now at second 1; another caller has since found the
\* token stale.
C27_Witness ==
    \E p, q \in Procs :
        /\ pc[p] = "gt_done" /\ wrote[p] /\ token[p] = T2
        /\ FieldsAsToken = T2 /\ expiresAt = T2.expires_in
        /\ now = 1
        /\ pc[q] = "et_refresh"

\* C30: the token fields change only in steps of the caller that holds the
\* mutex inside storeToken, and when that caller releases the mutex the four
\* fields are those of its own response and its call returns nil: with
\* several successful callers the state is that of the one that took the
\* mutex last, in whatever order their requests were sent and answered.
C30_LastWriteWins ==
    [][\A p \in Procs :
        /\ (AtStore(p, "lock") /\ pc'[p] # pc[p]) => (mu = Free /\ mu' = p)
        /\ (AtStore(p, "rest") /\ pc'[p] # pc[p])
           => /\ mu = p /\ mu' = Free
              /\ FieldsAsToken' = token[p]
              /\ pc'[p] \in {"dr_build", "gt_done", "rt_done"}
              /\ err'[p] = NilErr
        /\ (FieldsAsToken' # FieldsAsToken /\ pc'[p] # pc[p])
           => (mu = p /\ (AtStore(p, "access") \/ AtStore(p, "rest")))]_vars

\* Two racing callers, a GetToken answered with T1 and an ensureToken
\* answered with T2, have both returned nil; the ensureToken took the mutex
\* last and the state is T2.
C30_Witness ==
    \E p, q \in Procs :
        /\ pc[p] = "gt_done" /\ err[p] = NilErr /\ wrote[p] /\ token[p] = T1
        /\ pc[q] = "dr_build" /\ err[q] = NilErr /\ wrote[q] /\ token[q] = T2
        /\ nAuth[q] = 1
        /\ mu = Free
        /\ FieldsAsToken = T2

\* C28: doRequest, doBasicAuthRequest and doRefreshTokenHTTP return an *Error
\* for a response exactly when its status is below 200 or not below 300;
\* 199 and 300 are errors, 200 and 299 are not.
C28_StatusBoundary ==
    \A p \in Procs :
        (pc[p] \in TransportPCs /\ resp[p].failed = "no")
        => /\ err[p].type = "*Error" <=> ~(200 <= resp[p].status /\ resp[p].status < 300)
           /\ resp[p].status \in {199, 300} => err[p].StatusCode = resp[p].status
           /\ resp[p].status \in {200, 299} => err[p].StatusCode = 0

\* The refresh call was answered 300 and returned an *Error, while a domain
\* call answered 299 returned nil.
C28_Witness ==
    \E p, q \in Procs :
        /\ pc[p] = "x_refresh" /\ resp[p].status = 300 /\ err[p].type = "*Error"
        /\ pc[q] = "x_domain" /\ resp[q].failed = "no" /\ resp[q].status = 299
        /\ err[q] = NilErr

\* C29: for a 2xx answer to a domain request the destination is decoded into
\* exactly when one was passed and the body is a non-empty JSON text; with
\* no destination or an empty body the call returns nil; when a destination
\* was passed and the body does not decode, it returns a non-nil error that
\* is not an *Error.
C29_SuccessDecoding ==
    \A p \in Procs :
        (pc[p] = "x_domain" /\ resp[p].failed = "no"
            /\ 200 <= resp[p].status /\ resp[p].status < 300)
        => /\ dest[p] = "decoded" <=> (dest[p] # "nil" /\ resp[p].body.kind = "json")
           /\ (dest[p] = "nil" \/ resp[p].body.kind = "empty") => err[p] = NilErr
           /\ dest[p] = "decoded" => err[p] = NilErr
           /\ (dest[p] # "nil" /\ resp[p].body.kind = "text")
              => /\ err[p] # NilErr
                 /\ err[p].type # "*Error"
                 /\ dest[p] = "untouched"

\* One domain call with a destination got 200 with no body and returned nil,
\* the destination untouched; another got 200 with a body that is not JSON
\* and returned the unmarshal error.
C29_Witness ==
    \E p, q \in Procs :
        /\ pc[p] = "x_domain" /\ resp[p] = Outcome("no", 200, EmptyBody)
        /\ dest[p] = "untouched" /\ err[p] = NilErr
        /\ pc[q] = "x_domain" /\ resp[q] = Outcome("no", 200, TextBody)
        /\ dest[q] = "untouched" /\ err[q].text = <<"failed to unmarshal response">>

\* C31: the bearer value on a domain request is the access token the same
\* call's ensureToken installed, or the non-empty one it found fresh,
\* whatever other callers do in between.
C31_BearerOfOwnEnsureToken ==
    \A p \in Procs :
        pc[p] = "dr_wait"
        => /\ wrote[p] => bearer[p] = token[p].access_token
           /\ ~wrote[p] => bearer[p] \in {t.access_token : t \in TokenResponses}

\* C32: every request doRequest builds has Content-Type application/json and
\* Authorization "Bearer " followed by the client's access token, with a
\* body and without one; the request of the full authentication has the
\* Basic credentials made of the config's username and password, and no
\* bearer token.
C32_RequestHeaders ==
    [][\A p \in Procs :
        hdr'[p] # hdr[p]
        => /\ hdr'[p].by = "doRequest"
              => /\ hdr'[p].header.ContentType = "application/json"
                 /\ hdr'[p].header.Authorization = <<"Bearer", accessToken>>
           /\ hdr'[p].by = "doBasicAuthRequest"
              => /\ hdr'[p].header.Authorization =
                        <<"Basic", "base64", hdr'[p].config.Username, ":",
                          hdr'[p].config.Password>>
                 /\ \A i \in 1..Len(hdr'[p].header.Authorization) :
                        hdr'[p].header.Authorization[i]
                            \notin {"Bearer", T1.access_token, T2.access_token,
                                    T1.refresh_token, T2.refresh_token}]_vars

\* On a client that holds T1, one goroutine has built a domain request
\* without a body, with Content-Type and "Bearer a1", and the other the
\* authentication request with the credentials user / pass.
C32_Witness ==
    \E p, q \in Procs :
        /\ accessToken = T1.access_token
        /\ hdr[p].by = "doRequest" /\ ~hdr[p].hasBody
        /\ hdr[p].header = [ContentType |-> "application/json",
                            Authorization |-> <<"Bearer", "a1">>]
        /\ hdr[q].by = "doBasicAuthRequest"
        /\ hdr[q].header.Authorization = <<"Basic", "base64", "user", ":", "pass">>

\* C33: when json.Marshal fails on the body of a domain operation, the
\* operation returns a non-nil error that is not an *Error and does not wrap
\* one, and returns without having sent a domain request; that step changes
\* no token field, while the ensureToken before it may have sent a refresh
\* or an authentication request and replaced the token fields.
C33_EncodingFailure ==
    [][\A p \in Procs :
        /\ (pc[p] = "dr_build" /\ pc'[p] # pc[p])
           => /\ pc'[p] \in {"dr_wait", "dr_done"}
              /\ pc'[p] = "dr_done"
                 => /\ err'[p] # NilErr
                    /\ IsQPayError(err'[p]) = <<NilErr, FALSE>>
                    /\ \A i \in 1..Len(err'[p].wraps) : err'[p].wraps[i] # "*Error"
                    /\ nDomain'[p] = 0
                    /\ nRefresh'[p] = nRefresh[p] /\ nAuth'[p] = nAuth[p]
                    /\ FieldsAsToken' = FieldsAsToken
        /\ (pc[p] = "dr_done" /\ nDomain[p] = 0 /\ pc'[p] # pc[p])
           => (pc'[p] = "idle" /\ err[p] # NilErr /\ nDomain'[p] = 0)]_vars

\* A domain operation whose refresh failed and whose authentication then
\* installed T1 has returned the encoding error, no domain request sent.
C33_Witness ==
    \E p \in Procs :
        /\ pc[p] = "dr_done" /\ nDomain[p] = 0
        /\ err[p] = Wrap("failed to marshal request body", JSONErr)
        /\ nRefresh[p] = 1 /\ nAuth[p] = 1 /\ wrote[p]
        /\ token[p] = T1 /\ FieldsAsToken = T1

\* C34: the token fields change only in a storeToken step of a caller inside
\* ensureToken, GetToken or RefreshToken; the passing of time changes none,
\* a step in which no caller moves changes none, and no step of the
\* domain-request phase of doRequest (building and sending the request, the
\* answer, 401 and other statuses outside [200,300) included, the return)
\* changes any of the four.
C34_LazyTokenManagement ==
    [][/\ FieldsAsToken' # FieldsAsToken
          => \E p \in Procs :
                /\ pc'[p] # pc[p]
                /\ AtStore(p, "access") \/ AtStore(p, "rest")
                /\ pc[p] \in EnsurePCs \cup GetTokenPCs \cup RefreshTokenPCs
       /\ now' # now => FieldsAsToken' = FieldsAsToken
       /\ (\A p \in Procs : pc'[p] = pc[p]) => FieldsAsToken' = FieldsAsToken
       /\ \A p \in Procs :
            (pc[p] \in {"idle", "dr_build", "dr_wait", "dr_done", "dr_fail"} /\ pc'[p] # pc[p])
            => FieldsAsToken' = FieldsAsToken]_vars

\* The stored pair T2 has gone stale with the clock and is still there: the
\* one call since, a domain operation that found it fresh, was answered 401
\* and has returned, and nobody else is calling.
C34_Witness ==
    \E p \in Procs :
        /\ pc[p] = "dr_done" /\ NonSuccess(resp[p]) /\ resp[p].status = 401
        /\ ~wrote[p] /\ nRefresh[p] = 0 /\ nAuth[p] = 0
        /\ FieldsAsToken = T2
        /\ ~ValidBeyondMargin(accessToken, expiresAt, now)
        /\ \A q \in Procs \ {p} : pc[q] = "idle"

\* The program points at which a caller is about to call c.mu.Lock().
AtLock(p) == pc[p] \in {"et_lock", "rt_lock"} \/ AtStore(p, "lock")

\* The program points between a c.mu.Lock() and the c.mu.Unlock() after it.
InCriticalSection(p) ==
    pc[p] \in {"et_check", "rt_read"} \/ AtStore(p, "access") \/ AtStore(p, "rest")

\* The holder of the mutex takes its next step.
HolderSteps ==
    \E q \in Procs :
        /\ mu = q
        /\ EnsureTokenCheck(q) \/ RefreshTokenRead(q) \/ StoreAccessToken(q) \/ StoreRest(q)

\* C35: a caller holds the mutex exactly between its own Lock and Unlock, so
\* at every return of ensureToken, GetToken and RefreshToken (the cache hit,
\* after a store, after a failure) it does not hold it, and it never calls
\* Lock while holding it; and whenever a caller waits for the mutex, the
\* mutex is free or its holder can take a step, so the callers never block
\* each other for good.
C35_LockReleased ==
    /\ mu \in Procs \cup {Free}
    /\ \A p \in Procs :
        /\ mu = p <=> InCriticalSection(p)
        /\ pc[p] \in {"idle", "dr_build", "dr_fail", "dr_wait", "dr_done", "gt_done", "rt_done"}
           => mu # p
        /\ AtLock(p) => mu # p
        /\ (AtLock(p) /\ mu # Free) => ENABLED HolderSteps

\* One caller has returned from ensureToken after a failed refresh and a
\* successful authentication, another from a failed GetToken, and the mutex
\* is free.
C35_Witness ==
    \E p, q \in Procs :
        /\ pc[p] = "dr_build" /\ nRefresh[p] = 1 /\ nAuth[p] = 1 /\ wrote[p]
        /\ pc[q] = "gt_done" /\ err[q] # NilErr
        /\ mu = Free

\* C36: one ensureToken sends at most one refresh request and at most one
\* authentication request, the authentication request only when no refresh
\* succeeded and the refresh request only before any authentication request;
\* a domain operation sends at most three requests in all; and, under the
\* scheduling assumptions (every request comes back, the mutex is granted
\* fairly), every ensureToken returns and every domain operation returns:
\* a caller leaves ensureToken only by its return, with nil or with an
\* error, and a domain operation only by its return, and no caller stays
\* inside either for ever.
C36_BoundedWork ==
    /\ [][\A p \in Procs :
            /\ pc'[p] \in DoRequestPCs
               => /\ nRefresh'[p] <= 1 /\ nAuth'[p] <= 1 /\ nDomain'[p] <= 1
                  /\ nRefresh'[p] + nAuth'[p] + nDomain'[p] <= 3
            /\ (pc[p] \in EnsurePCs /\ nAuth'[p] > nAuth[p])
               => /\ ~wrote[p]
                  /\ nRefresh[p] = 1 => ~RefreshSucceeded(resp[p])
            /\ (pc[p] \in EnsurePCs /\ nRefresh'[p] > nRefresh[p]) => nAuth[p] = 0
            /\ (pc[p] = "et_refresh_wait" /\ pc'[p] # pc[p] /\ RefreshSucceeded(resp'[p]))
               => pc'[p] = "et_st_lock"
            /\ (pc[p] \in {"et_st_lock", "et_st_access", "et_st_rest"} /\ pc'[p] # pc[p])
               => (nAuth'[p] = nAuth[p] /\ nRefresh'[p] = nRefresh[p])]_vars
    /\ [][\A p \in Procs :
            /\ (pc[p] \in EnsurePCs /\ pc'[p] \notin EnsurePCs)
               => pc'[p] \in {"dr_build", "dr_fail"}
            /\ (pc[p] \in DoRequestPCs /\ pc'[p] \notin DoRequestPCs) => pc'[p] = "idle"
            /\ (pc[p] \in {"dr_done", "dr_fail"} /\ pc'[p] # pc[p]) => pc'[p] = "idle"]_vars
    /\ \A p \in Procs :
        /\ []<>(pc[p] \notin EnsurePCs)
        /\ []<>(pc[p] \notin DoRequestPCs \ {"dr_done", "dr_fail"})

\* A domain operation has returned after three requests: a refresh that
\* failed, an authentication and the domain request.
C36_Witness ==
    \E p \in Procs :
        /\ pc[p] = "dr_done"
        /\ nRefresh[p] = 1 /\ nAuth[p] = 1 /\ nDomain[p] = 1
        /\ wrote[p] /\ token[p] \in TokenResponses

\* C37: ensureToken decides to refresh and copies c.refreshToken in one
\* critical section, and the copy is what goes out to /v2/auth/refresh: the
\* value sent is never empty and is the one read then, whatever another
\* caller has stored since.
C37_RefreshTokenSnapshot ==
    [][\A p \in Procs :
        /\ (pc[p] = "et_check" /\ pc'[p] = "et_refresh")
           => /\ mu = p
              /\ refreshToken # ""
              /\ now < refreshExpiresAt - tokenBufferSeconds
              /\ refreshTok'[p] = refreshToken
        /\ (pc[p] = "et_refresh" /\ pc'[p] # pc[p])
           => /\ pc'[p] = "et_refresh_wait"
              /\ refreshTok'[p] = refreshTok[p]
              /\ refreshTok'[p] # ""
        /\ pc'[p] \in {"et_refresh", "et_refresh_wait"} => refreshTok'[p] # ""]_vars

\* ensureToken has sent r2, read while T2 was stored, although another
\* caller has since stored the zero pair: the client now holds no refresh
\* token at all.
C37_Witness ==
    \E p \in Procs :
        /\ pc[p] = "et_refresh_wait" /\ nRefresh[p] = 1
        /\ refreshTok[p] = T2.refresh_token
        /\ refreshToken = ""
        /\ mu = Free

\* The refresh exchange failed in one of the ways there are: no response
\* (connection error, timeout, cancelled context), a status outside
\* [200,300), or a 2xx answer with no body or with a body that is not JSON.
RefreshFailed(o) ==
    \/ o.failed # "no"
    \/ NonSuccess(o)
    \/ (~NonSuccess(o) /\ o.body.kind \in {"empty", "text"})

\* C38: in ensureToken a refresh that fails in any of these ways assigns no
\* token field and sets no error, and is followed by one authentication
\* request; the answer to that request decides alone how ensureToken
\* returns: nil with the answer's pair stored, or the wrapped error of the
\* authentication with no field assigned.
C38_AnyRefreshFailureFallsBack ==
    [][\A p \in Procs :
        /\ (pc[p] = "et_refresh_wait" /\ pc'[p] # pc[p])
           => /\ RefreshFailed(resp'[p]) <=> ~RefreshSucceeded(resp'[p])
              /\ RefreshFailed(resp'[p])
                 => /\ pc'[p] = "et_auth"
                    /\ err'[p] = NilErr
                    /\ ~wrote'[p]
                    /\ nRefresh'[p] = 1 /\ nAuth'[p] = 0
                    /\ FieldsAsToken' = FieldsAsToken
        /\ (pc[p] = "et_auth" /\ pc'[p] # pc[p] /\ nRefresh[p] = 1)
           => (pc'[p] = "et_auth_wait" /\ nAuth'[p] = 1 /\ nRefresh'[p] = 1)
        /\ (pc[p] = "et_auth_wait" /\ pc'[p] # pc[p] /\ nRefresh[p] = 1)
           => /\ nAuth'[p] = 1 /\ nRefresh'[p] = 1
              /\ AuthSucceeded(resp'[p])
                 => /\ pc'[p] = "et_st_lock"
                    /\ err'[p] = NilErr
                    /\ token'[p] = IF resp'[p].body.kind = "empty" THEN ZeroToken
                                   ELSE resp'[p].body.tok
              /\ ~AuthSucceeded(resp'[p])
                 => /\ pc'[p] = "dr_fail"
                    /\ err'[p].text[1] = "failed to get token"
                    /\ NonSuccess(resp'[p]) => err'[p].StatusCode = resp'[p].status
                    /\ ~wrote'[p]
                    /\ FieldsAsToken' = FieldsAsToken
        /\ (pc[p] = "et_st_rest" /\ pc'[p] # pc[p] /\ nRefresh[p] = 1 /\ nAuth[p] = 1)
           => /\ pc'[p] = "dr_build"
              /\ err'[p] = NilErr
              /\ FieldsAsToken' = token[p]
              /\ nRefresh'[p] = 1 /\ nAuth'[p] = 1]_vars

\* Two callers found T2 stale and refreshed; one got 200 with no body, the
\* other no response at all; both stand before the full authentication with
\* no error set and T2 still stored.
C38_Witness ==
    \E p, q \in Procs :
        /\ pc[p] = "et_auth" /\ resp[p] = Outcome("no", 200, EmptyBody)
        /\ pc[q] = "et_auth" /\ resp[q] = Outcome("do", 0, EmptyBody)
        /\ nRefresh[p] = 1 /\ nRefresh[q] = 1 /\ nAuth[p] = 0 /\ nAuth[q] = 0
        /\ err[p] = NilErr /\ err[q] = NilErr
        /\ FieldsAsToken = T2

====
